---- MODULE Spec2Model ----
(***************************************************************************)
(* rfgrep: the search pipeline of src/main.rs (root check, orchestration,   *)
(* per-file worker isolation, NDJSON channel, aggregation, exit status),   *)
(* the file scanner of src/processor.rs, the search algorithms of          *)
(* src/search/algorithms.rs, src/search_algorithms.rs and                  *)
(* src/search/streaming.rs, the NDJSON formatter of src/output_formats.rs  *)
(* and the search entry points of src/app.rs and src/app_simple.rs.        *)
(*                                                                         *)
(* Strings are sequences of one-character strings; a path is the string    *)
(* the PathBuf stores (components separated by "/").  Line numbers,        *)
(* columns and counters are usize values far below their width.            *)
(***************************************************************************)
EXTENDS Integers, Sequences, FiniteSets, TLC

(* ----------------------------- bounds --------------------------------- *)

\* longest file, in lines, given to the scanner
MaxLines == 4

\* number of NDJSON lines the worker's stdout pipe holds while nobody reads
PipeCap == 1

\* bytes StreamingSearch reads at a time (chunk_size)
ChunkBytes == 3

\* longest text, in bytes, given to the search of an algorithm
MaxText == 4

\* longest pattern, in bytes, given to the search of an algorithm
MaxPattern == 2

\* capacity of the NDJSON channel, standing for the 1024 of main.rs
ChannelCap == 2

\* most matches one parallel chunk has to hand over
MaxSend == 3

(* ------------------------ program constants --------------------------- *)

\* processor.rs: const CONTEXT_LINES
CONTEXT_LINES == 2

\* processor.rs: const MMAP_THRESHOLD, in MiB
MMAP_THRESHOLD == 16

\* processor.rs: const MAX_SCAN_FILE_SIZE, in MiB
MAX_SCAN_FILE_SIZE == 100

(* --------------------------- strings ---------------------------------- *)

\* the byte of every character the model uses
Byte == ("-" :> 45) @@ ("." :> 46) @@ ("/" :> 47) @@ ("a" :> 97) @@ ("b" :> 98) @@ ("x" :> 120)

Min(S) == CHOOSE x \in S : \A y \in S : x <= y

MinNat(a, b) == IF a <= b THEN a ELSE b

\* Ord for usize: -1, 0 or 1
CmpNat(a, b) == IF a < b THEN -1 ELSE IF a = b THEN 0 ELSE 1

\* Ord for str / OsStr: lexicographic on the bytes
CmpStr(s, t) ==
    LET n == MinNat(Len(s), Len(t))
        d == {i \in 1..n : s[i] # t[i]}
    IN  IF d = {} THEN CmpNat(Len(s), Len(t))
        ELSE CmpNat(Byte[s[Min(d)]], Byte[t[Min(d)]])

\* Path::components(): the path split at every "/"
RECURSIVE Components(_)
Components(p) ==
    LET seps == {i \in 1..Len(p) : p[i] = "/"}
    IN  IF seps = {} THEN <<p>>
        ELSE <<SubSeq(p, 1, Min(seps) - 1)>> \o Components(SubSeq(p, Min(seps) + 1, Len(p)))

\* Ord for PathBuf: lexicographic on the components, each compared as OsStr
CmpPath(p, q) ==
    LET cp == Components(p)
        cq == Components(q)
        n == MinNat(Len(cp), Len(cq))
        d == {i \in 1..n : cp[i] # cq[i]}
    IN  IF d = {} THEN CmpNat(Len(cp), Len(cq))
        ELSE CmpStr(cp[Min(d)], cq[Min(d)])

\* Ord for (usize, String)
CmpCtxEntry(a, b) ==
    IF CmpNat(a[1], b[1]) # 0 THEN CmpNat(a[1], b[1]) ELSE CmpStr(a[2], b[2])

\* Ord for Vec<(usize, String)>
CmpCtx(s, t) ==
    LET n == MinNat(Len(s), Len(t))
        d == {i \in 1..n : s[i] # t[i]}
    IN  IF d = {} THEN CmpNat(Len(s), Len(t))
        ELSE CmpCtxEntry(s[Min(d)], t[Min(d)])

(* ------------------------ processor.rs -------------------------------- *)

\* #[derive(PartialOrd, Ord)] on SearchMatch: the fields in declaration order
SearchMatchFields ==
    <<"path", "line_number", "line", "context_before", "context_after",
      "matched_text", "column_start", "column_end">>

CmpField(f, m1, m2) ==
    CASE f = "path" -> CmpPath(m1.path, m2.path)
      [] f \in {"line_number", "column_start", "column_end"} -> CmpNat(m1[f], m2[f])
      [] f \in {"line", "matched_text"} -> CmpStr(m1[f], m2[f])
      [] OTHER -> CmpCtx(m1[f], m2[f])

SearchMatchCmp(m1, m2) ==
    LET d == {i \in 1..Len(SearchMatchFields) :
                 CmpField(SearchMatchFields[i], m1, m2) # 0}
    IN  IF d = {} THEN 0 ELSE CmpField(SearchMatchFields[Min(d)], m1, m2)

NoMatch == [found |-> FALSE]

\* Regex::find on one line for a literal pattern: the leftmost occurrence
RegexFind(pattern, line) ==
    LET hits == {i \in 0..(Len(line) - Len(pattern)) :
                    SubSeq(line, i + 1, i + Len(pattern)) = pattern}
    IN  IF hits = {} THEN NoMatch
        ELSE [found |-> TRUE, start |-> Min(hits), end |-> Min(hits) + Len(pattern),
              text |-> pattern]

Take(s, n) == SubSeq(s, 1, MinNat(n, Len(s)))

\* one turn of find_matches_streaming's while loop, then the rest of the file
RECURSIVE StreamLoop(_, _, _, _, _, _, _)
StreamLoop(lines, pattern, path, pos, line_no, buffer, matches) ==
    IF pos >= Len(lines) THEN matches
    ELSE
      LET line_no1 == line_no + 1
          line == lines[pos + 1]
          pushed == Append(buffer, <<line_no1, line>>)
          buffer1 == IF Len(pushed) > 2 * CONTEXT_LINES + 1 THEN Tail(pushed) ELSE pushed
          m == RegexFind(pattern, line)
      IN  IF ~m.found
          THEN StreamLoop(lines, pattern, path, pos + 1, line_no1, buffer1, matches)
          ELSE
            LET context_before == Take(buffer1, CONTEXT_LINES)
                k == MinNat(CONTEXT_LINES, Len(lines) - (pos + 1))
                context_after == [j \in 1..k |-> <<line_no1 + j, lines[pos + 1 + j]>>]
                line_no2 == line_no1 + k
                rec == [path |-> path, line_number |-> line_no2, line |-> line,
                        context_before |-> context_before,
                        context_after |-> context_after,
                        matched_text |-> m.text,
                        column_start |-> m.start, column_end |-> m.end]
            IN  StreamLoop(lines, pattern, path, pos + 1 + k, line_no2, buffer1,
                           Append(matches, rec))

find_matches_streaming(lines, pattern, path) ==
    StreamLoop(lines, pattern, path, 0, 0, <<>>, <<>>)

\* the record find_matches_with_context pushes for the line at index i (0-based)
ContextRecord(lines, pattern, path, i) ==
    LET m == RegexFind(pattern, lines[i + 1])
        start_idx == IF i >= CONTEXT_LINES THEN i - CONTEXT_LINES ELSE 0
        end_idx == MinNat(i + CONTEXT_LINES + 1, Len(lines))
    IN  [path |-> path, line_number |-> i + 1, line |-> lines[i + 1],
         context_before |-> [j \in 1..(i - start_idx) |->
                                <<start_idx + j, lines[start_idx + j]>>],
         context_after |-> [j \in 1..(end_idx - (i + 1)) |->
                                <<i + 1 + j, lines[i + 1 + j]>>],
         matched_text |-> m.text, column_start |-> m.start, column_end |-> m.end]

RECURSIVE ContextLoop(_, _, _, _)
ContextLoop(lines, pattern, path, i) ==
    IF i >= Len(lines) THEN <<>>
    ELSE (IF RegexFind(pattern, lines[i + 1]).found
          THEN <<ContextRecord(lines, pattern, path, i)>> ELSE <<>>)
         \o ContextLoop(lines, pattern, path, i + 1)

find_matches_with_context(lines, pattern, path) ==
    ContextLoop(lines, pattern, path, 0)

\* get_adaptive_mmap_threshold, in MiB, from MemAvailable of /proc/meminfo
\* in MiB; mem < 0 stands for a system without a readable /proc/meminfo
get_adaptive_mmap_threshold(mem) ==
    IF mem < 0 THEN MMAP_THRESHOLD
    ELSE LET threshold == MinNat(mem \div 8, 1024)
         IN  IF threshold >= MMAP_THRESHOLD THEN threshold ELSE MMAP_THRESHOLD

\* should_skip for a regular, non-executable file with a text extension:
\* what is left is the size threshold
should_skip(file) == file.size > MAX_SCAN_FILE_SIZE

\* search_file once the file is open: skipped by the pre-scan heuristic,
\* memory-mapped from the threshold on, streamed below it
search_file(file, pattern, path, mem) ==
    IF should_skip(file) THEN <<>>
    ELSE IF file.size >= get_adaptive_mmap_threshold(mem)
         THEN find_matches_with_context(file.lines, pattern, path)
         ELSE find_matches_streaming(file.lines, pattern, path)

(* ------------------- file contents as one string --------------------- *)

RECURSIVE JoinLines(_)
JoinLines(lines) ==
    IF lines = <<>> THEN <<>> ELSE Head(lines) \o <<"\n">> \o JoinLines(Tail(lines))

\* the bytes of a file: its lines, each ended by "\n" but for a last line
\* without one
Content(file) ==
    LET text == JoinLines(file.lines)
    IN  IF file.eol THEN text ELSE SubSeq(text, 1, Len(text) - 1)

\* str::lines(): split at "\n", no empty piece after a final "\n"
RECURSIVE StrLines(_)
StrLines(text) ==
    LET nl == {i \in 1..Len(text) : text[i] = "\n"}
    IN  IF text = <<>> THEN <<>>
        ELSE IF nl = {} THEN <<text>>
        ELSE <<SubSeq(text, 1, Min(nl) - 1)>> \o StrLines(SubSeq(text, Min(nl) + 1, Len(text)))

Max(S) == CHOOSE x \in S : \A y \in S : x >= y

\* text[..pos].rfind('\n').unwrap_or(0)
RfindNewlineOr0(text, pos) ==
    LET nl == {i \in 0..(pos - 1) : text[i + 1] = "\n"}
    IN  IF nl = {} THEN 0 ELSE Max(nl)

\* get_context_before of both algorithm modules
get_context_before(lines, current_line, context_lines) ==
    LET start == IF current_line >= context_lines THEN current_line - context_lines ELSE 0
    IN  [j \in 1..(current_line - start) |-> <<start + j, lines[start + j]>>]

\* get_context_after of both algorithm modules
get_context_after(lines, current_line, context_lines) ==
    LET end == MinNat(current_line + context_lines + 1, Len(lines))
    IN  [j \in 1..(end - (current_line + 1)) |->
            <<current_line + 1 + j, lines[current_line + 1 + j]>>]

(* --------------------- search/algorithms.rs --------------------------- *)

\* memchr::memmem::find(&text[pos..], pattern), as an absolute offset or -1
MemmemFind(text, pattern, pos) ==
    LET hits == {i \in pos..(Len(text) - Len(pattern)) :
                    SubSeq(text, i + 1, i + Len(pattern)) = pattern}
    IN  IF hits = {} THEN -1 ELSE Min(hits)

RECURSIVE SimdLoop(_, _, _, _)
SimdLoop(text, pattern, pos, found) ==
    LET absolute_pos == MemmemFind(text, pattern, pos)
    IN  IF absolute_pos < 0 THEN found
        ELSE IF absolute_pos + 1 >= Len(text) THEN Append(found, absolute_pos)
        ELSE SimdLoop(text, pattern, absolute_pos + 1, Append(found, absolute_pos))

\* SimdSearch::search
SimdSearch_search(text, pattern) ==
    IF pattern = <<>> THEN <<>> ELSE SimdLoop(text, pattern, 0, <<>>)

\* the record SimdSearch::search_with_context builds for one offset, if any
SimdRecord(text, pattern, context_lines, match_pos) ==
    LET lines == StrLines(text)
        pre_lines == Len(StrLines(SubSeq(text, 1, match_pos)))
        line_number == IF pre_lines >= 1 THEN pre_lines ELSE 1
        line_index == line_number - 1
        line == lines[line_index + 1]
        line_start == RfindNewlineOr0(text, match_pos)
        column_start == match_pos - line_start
        column_end == column_start + Len(pattern)
    IN  IF line_index < Len(lines)
        THEN << [path |-> <<>>, line_number |-> line_number, line |-> line,
                 context_before |-> get_context_before(lines, line_index, context_lines),
                 context_after |-> get_context_after(lines, line_index, context_lines),
                 matched_text |-> IF column_start < Len(line) /\ column_end <= Len(line)
                                  THEN SubSeq(line, column_start + 1, column_end)
                                  ELSE pattern,
                 column_start |-> column_start, column_end |-> column_end] >>
        ELSE <<>>

RECURSIVE SimdRecords(_, _, _, _)
SimdRecords(text, pattern, context_lines, offsets) ==
    IF offsets = <<>> THEN <<>>
    ELSE SimdRecord(text, pattern, context_lines, Head(offsets))
         \o SimdRecords(text, pattern, context_lines, Tail(offsets))

\* SimdSearch::search_with_context
SimdSearch_search_with_context(text, pattern, context_lines) ==
    SimdRecords(text, pattern, context_lines, SimdSearch_search(text, pattern))

(* ---------------------- search_algorithms.rs -------------------------- *)

\* build_bad_char_table: the last position of a byte wins
bad_char_table(pattern) ==
    [b \in {pattern[i] : i \in 1..Len(pattern)} |->
        Len(pattern) - Max({i \in 1..Len(pattern) : pattern[i] = b})]

\* build_good_suffix_table, 0-based index i at position i + 1
good_suffix_table(pattern) ==
    [i \in 1..Len(pattern) |->
        IF Len(pattern) > 1 /\ i = Len(pattern) - 1 THEN Len(pattern) ELSE 1]

\* the inner while of BoyerMoore::search: <<j, k>> when it stops
RECURSIVE BackScan(_, _, _, _)
BackScan(text, pattern, j, k) ==
    IF j > 0 /\ text[k + 1] = pattern[j + 1] THEN BackScan(text, pattern, j - 1, k - 1)
    ELSE <<j, k>>

RECURSIVE BoyerMooreLoop(_, _, _, _)
BoyerMooreLoop(text, pattern, i, found) ==
    IF i >= Len(text) THEN found
    ELSE
      LET pattern_len == Len(pattern)
          jk == BackScan(text, pattern, pattern_len - 1, i)
          j == jk[1]
          k == jk[2]
          found1 == IF j = 0 /\ text[k + 1] = pattern[1] THEN Append(found, k) ELSE found
          table == bad_char_table(pattern)
          bad_char_shift == IF text[i + 1] \in DOMAIN table THEN table[text[i + 1]]
                            ELSE pattern_len
          good_suffix_shift == IF j < pattern_len - 1 THEN good_suffix_table(pattern)[j + 2]
                               ELSE 1
          shift == IF bad_char_shift >= good_suffix_shift THEN bad_char_shift
                   ELSE good_suffix_shift
      IN  BoyerMooreLoop(text, pattern, i + shift, found1)

\* BoyerMoore::search
BoyerMoore_search(text, pattern) ==
    IF Len(pattern) = 0 \/ Len(text) < Len(pattern) THEN <<>>
    ELSE BoyerMooreLoop(text, pattern, Len(pattern) - 1, <<>>)

\* the record BoyerMoore::search_with_context builds for one offset, if any
BoyerMooreRecord(text, pattern, context_lines, match_pos) ==
    LET lines == StrLines(text)
        line_number == Len(StrLines(SubSeq(text, 1, match_pos))) + 1
        line_index == line_number - 1
        column_start == match_pos - RfindNewlineOr0(text, match_pos)
    IN  IF line_index < Len(lines)
        THEN << [line_number |-> line_number, line |-> lines[line_index + 1],
                 context_before |-> get_context_before(lines, line_index, context_lines),
                 context_after |-> get_context_after(lines, line_index, context_lines),
                 matched_text |-> pattern,
                 column_start |-> column_start,
                 column_end |-> column_start + Len(pattern)] >>
        ELSE <<>>

RECURSIVE BoyerMooreRecords(_, _, _, _)
BoyerMooreRecords(text, pattern, context_lines, offsets) ==
    IF offsets = <<>> THEN <<>>
    ELSE BoyerMooreRecord(text, pattern, context_lines, Head(offsets))
         \o BoyerMooreRecords(text, pattern, context_lines, Tail(offsets))

\* BoyerMoore::search_with_context
BoyerMoore_search_with_context(text, pattern, context_lines) ==
    BoyerMooreRecords(text, pattern, context_lines, BoyerMoore_search(text, pattern))

(* ----------------------- search/streaming.rs -------------------------- *)

\* the records pushed for one line: one per offset algorithm.search returns
StreamingLineRecords(path, pattern, line_number, line, context, offsets) ==
    [i \in 1..Len(offsets) |->
        [path |-> path, line_number |-> line_number, line |-> line,
         context_before |-> context, context_after |-> <<>>,
         matched_text |-> pattern,
         column_start |-> offsets[i], column_end |-> offsets[i] + Len(pattern)]]

\* the for loop over the complete lines of one chunk; st holds line_number,
\* context_before and matches
RECURSIVE ProcessLines(_, _, _, _, _)
ProcessLines(lines, path, pattern, context_lines, st) ==
    IF lines = <<>> THEN st
    ELSE
      LET line_number == st.line_number + 1
          line == Head(lines)
          pushed == Append(st.context_before, <<line_number, line>>)
          context_before == IF Len(pushed) > context_lines THEN Tail(pushed) ELSE pushed
          recs == StreamingLineRecords(path, pattern, line_number, line,
                                       Take(context_before, context_lines),
                                       SimdSearch_search(line, pattern))
      IN  ProcessLines(Tail(lines), path, pattern, context_lines,
                       [line_number |-> line_number, context_before |-> context_before,
                        matches |-> st.matches \o recs])

\* the read loop: unread is what the reader has left, remaining the
\* incomplete line kept from the chunk before
RECURSIVE ChunkLoop(_, _, _, _, _, _, _)
ChunkLoop(unread, chunk_size, path, pattern, context_lines, remaining, st) ==
    IF unread = <<>>
    THEN IF remaining = <<>> THEN st.matches
         ELSE st.matches \o
              StreamingLineRecords(path, pattern, st.line_number + 1, remaining,
                                   Take(st.context_before, context_lines),
                                   SimdSearch_search(remaining, pattern))
    ELSE
      LET n == MinNat(chunk_size, Len(unread))
          full_text == remaining \o SubSeq(unread, 1, n)
          lines == StrLines(full_text)
          last_line_incomplete == full_text[Len(full_text)] # "\n"
          lines_to_process == IF last_line_incomplete THEN Len(lines) - 1 ELSE Len(lines)
      IN  ChunkLoop(SubSeq(unread, n + 1, Len(unread)), chunk_size, path, pattern,
                    context_lines,
                    IF last_line_incomplete THEN lines[Len(lines)] ELSE <<>>,
                    ProcessLines(SubSeq(lines, 1, lines_to_process), path, pattern,
                                 context_lines, st))

\* StreamingSearch::fill_context_after: the file is read again
fill_context_after(found, lines, context_lines) ==
    IF context_lines = 0 THEN found
    ELSE [i \in 1..Len(found) |->
            LET start_line == found[i].line_number
                end_line == MinNat(start_line + context_lines, Len(lines))
            IN  [found[i] EXCEPT !.context_after =
                    [j \in 1..(end_line - start_line) |->
                        <<start_line + j, lines[start_line + j]>>]]]

\* StreamingSearch::search_file_streaming with SimdSearch as the algorithm
search_file_streaming(file, path, pattern, context_lines, chunk_size) ==
    fill_context_after(
        ChunkLoop(Content(file), chunk_size, path, pattern, context_lines, <<>>,
                  [line_number |-> 0, context_before |-> <<>>, matches |-> <<>>]),
        StrLines(Content(file)), context_lines)

(* ---------------------- output_formats.rs ----------------------------- *)

\* json!({"line_number": num, "content": line}): one context entry as emitted
ContextJson(entry) ==
    [json |-> "object", line_number |-> entry[1], content |-> entry[2]]

\* OutputFormatter::format_json with ndjson set and include_context (the
\* default): one JSON object per match, in the order of the slice
format_json(matches, query) ==
    [i \in 1..Len(matches) |->
        [query |-> query,
         path |-> matches[i].path,
         line_number |-> matches[i].line_number,
         line |-> matches[i].line,
         matched_text |-> matches[i].matched_text,
         column_start |-> matches[i].column_start,
         column_end |-> matches[i].column_end,
         context_before |-> [j \in 1..Len(matches[i].context_before) |->
                                ContextJson(matches[i].context_before[j])],
         context_after |-> [j \in 1..Len(matches[i].context_after) |->
                                ContextJson(matches[i].context_after[j])]]]

(* ------------------- main.rs: parsing worker output ------------------- *)

\* serde: a (usize, String) is read from a JSON array of two elements only
TupleFromJson(v) ==
    IF v.json = "array" THEN [ok |-> TRUE, value |-> v.items] ELSE [ok |-> FALSE]

\* serde_json::from_str::<SearchMatch>(line): the eight fields by name, unknown
\* fields (query) ignored, an error when any context entry is not a tuple
SearchMatchFromJson(obj) ==
    LET before == [j \in 1..Len(obj.context_before) |-> TupleFromJson(obj.context_before[j])]
        after == [j \in 1..Len(obj.context_after) |-> TupleFromJson(obj.context_after[j])]
    IN  IF (\A j \in 1..Len(before) : before[j].ok) /\ (\A j \in 1..Len(after) : after[j].ok)
        THEN [ok |-> TRUE,
              value |-> [path |-> obj.path, line_number |-> obj.line_number,
                         line |-> obj.line,
                         context_before |-> [j \in 1..Len(before) |-> before[j].value],
                         context_after |-> [j \in 1..Len(after) |-> after[j].value],
                         matched_text |-> obj.matched_text,
                         column_start |-> obj.column_start,
                         column_end |-> obj.column_end]]
        ELSE [ok |-> FALSE]

\* process_file's loop over stdout.lines(): a line that is no SearchMatch is
\* looked up for a "matches" array, which an NDJSON match object does not have
RECURSIVE ParseWorkerOutput(_)
ParseWorkerOutput(stdout) ==
    IF stdout = <<>> THEN <<>>
    ELSE LET r == SearchMatchFromJson(Head(stdout))
         IN  (IF r.ok THEN <<r.value>> ELSE <<>>) \o ParseWorkerOutput(Tail(stdout))

(* ------------------------------ state --------------------------------- *)

VARIABLES
    mem_available,      \* MemAvailable of the system, in MiB (-1: not readable)
    scan,               \* one file taken through scan, NDJSON output and parsing
    search,             \* one text given to the search of one algorithm
    entry,              \* one run of the search command from an entry point
    nd,                 \* the NDJSON channel of main, its producers and its sink
    read,               \* one file given to the readers that choose by size
    classifier,         \* a FileTypeClassifier and the rules added to it
    filter,             \* one file given to the file filter of app_simple.rs
    cache,              \* REGEX_CACHE and the threads that compile through it
    pool,               \* a MemoryPool, its clock and the threads that use it
    exec,               \* one call of SearchExecutor::execute
    mm,                 \* an AdaptiveMemoryManager and the threads that update it
    exit_code,          \* the exit status of the process, once main has returned
    fs,                 \* the files under the search root: path -> file
    cli,                \* the options of the search command
    chunks,             \* files.par_chunks(chunk_size): the paths of each chunk
    next_entry,         \* per chunk: how many of its entries are processed
    child,              \* per chunk: the worker process of the entry in progress
    matches,            \* the shared collector, Mutex<Vec<SearchMatch>>
    processing_errors,  \* the shared error list, Mutex<Vec<RfgrepError>>
    metrics,            \* the counters of metrics.rs
    warnings,           \* the paths warn! was called for
    outcome,            \* per path: how process_file ended
    returned,           \* per path: the matches process_file returned
    flushed,            \* per path: the matches its worker had written to stdout
    output,             \* the aggregated list handed to the formatter
    reported,           \* the errors printed to stderr
    pc                  \* where main is

more_vars == <<read, classifier, filter, cache, pool, exec, mm>>

other_vars == <<search, entry, nd, more_vars>>

vars == <<mem_available, scan, other_vars, exit_code, fs, cli, chunks, next_entry, child,
          matches,
          processing_errors, metrics, warnings, outcome, returned, flushed,
          output, reported, pc>>

orch_vars == <<exit_code, fs, cli, chunks, next_entry, child, matches, processing_errors,
               metrics, warnings, outcome, returned, flushed, output, reported, pc>>

None == [some |-> FALSE, val |-> 0]

Some(v) == [some |-> TRUE, val |-> v]

Ok(v) == [ok |-> TRUE, value |-> v]

Err(path, what) == [ok |-> FALSE, error |-> [path |-> path, what |-> what]]

\* everything but more_vars: what the components modelled on their own leave
\* alone
base_vars == <<mem_available, scan, search, entry, nd, orch_vars>>

(* ------------------------- inputs of the model ------------------------ *)

Lines == {<<>>, <<"a">>, <<"b">>, <<"b", "a">>, <<"a", "a">>}

Patterns == {<<"a">>, <<"b", "a">>}

Sizes == {0, MMAP_THRESHOLD, MAX_SCAN_FILE_SIZE + 1}

MemChoices == {-1, 8 * 1024}

SeqsUpTo(S, n) == UNION {[1..k -> S] : k \in 0..n}

\* a file without a final newline has a last line, and that line is not empty
ScanFiles ==
    {f \in [lines : SeqsUpTo(Lines, MaxLines), size : Sizes, eol : BOOLEAN] :
        f.eol \/ (f.lines # <<>> /\ f.lines[Len(f.lines)] # <<>>)}

ContextChoices == 0..CONTEXT_LINES

\* the paths the walker enumerates, in directory order
Files == << <<"b">>, <<"a", "/", "x">>, <<"a", ".", "x">> >>

Paths == {Files[i] : i \in 1..Len(Files)}

\* what a path of the tree can be: an empty file, a large one-line file, a
\* small file with matches on its first and last line, an unreadable file
OrchFiles ==
    { [lines |-> <<>>, size |-> 0, eol |-> TRUE, readable |-> TRUE],
      [lines |-> << <<"a">> >>, size |-> MMAP_THRESHOLD, eol |-> TRUE, readable |-> TRUE],
      [lines |-> << <<"a">>, <<"b">>, <<"b">>, <<"b", "a">> >>, size |-> 0,
        eol |-> TRUE, readable |-> TRUE],
      [lines |-> <<>>, size |-> 0, eol |-> TRUE, readable |-> FALSE] }

\* the pattern of the search command
Query == <<"a">>

MaxMatchesChoices == {None, Some(1), Some(2)}

NoChild == [state |-> "none", todo |-> <<>>, pipe |-> <<>>, status |-> 0]

ScanIdle == [pc |-> "idle"]

SearchIdle == [pc |-> "idle"]

EntryIdle == [pc |-> "idle"]

NdIdle == [pc |-> "idle"]

Idle == [pc |-> "idle"]

MoreIdle ==
    /\ read = Idle
    /\ classifier = Idle
    /\ filter = Idle
    /\ cache = Idle
    /\ pool = Idle
    /\ exec = Idle
    /\ mm = Idle

OrchIdle ==
    /\ exit_code = None
    /\ fs = << >>
    /\ cli = [timeout_per_file |-> None, max_matches |-> None]
    /\ chunks = << >>
    /\ next_entry = << >>
    /\ child = << >>
    /\ matches = << >>
    /\ processing_errors = << >>
    /\ metrics = [files_scanned |-> 0, matches_found |-> 0, files_skipped |-> 0,
                  worker_timeouts |-> 0]
    /\ warnings = << >>
    /\ outcome = << >>
    /\ returned = << >>
    /\ flushed = << >>
    /\ output = << >>
    /\ reported = << >>
    /\ pc = "idle"

\* the variables of the other specifications, for one that uses more_vars
BaseIdle ==
    /\ mem_available = -1
    /\ scan = ScanIdle
    /\ search = SearchIdle
    /\ entry = EntryIdle
    /\ nd = NdIdle
    /\ OrchIdle

(* ------------- one file: scan, NDJSON output, parsing ----------------- *)

InitScan ==
    /\ mem_available \in MemChoices
    /\ \E file \in ScanFiles, pattern \in Patterns :
          scan = [pc |-> "start", path |-> Files[2], file |-> file, pattern |-> pattern,
                  matches |-> <<>>, stdout |-> <<>>, parsed |-> <<>>,
                  context_lines |-> 0, found |-> <<>>, invert_match |-> FALSE]
    /\ search = SearchIdle
    /\ entry = EntryIdle
    /\ nd = NdIdle
    /\ MoreIdle
    /\ OrchIdle

\* the search of one file, processor::search_file(path, &regex), as the
\* worker and process_file call it; the invert_match of the command line is
\* bound to _ by main and reaches neither
WorkerSearch ==
    /\ scan.pc = "start"
    /\ \E invert_match \in BOOLEAN :
          scan' = [scan EXCEPT !.pc = "searched", !.invert_match = invert_match,
                     !.matches = search_file(scan.file, scan.pattern, scan.path,
                                             mem_available)]
    /\ UNCHANGED <<mem_available, other_vars, orch_vars>>

\* Commands::Worker, second half: the NDJSON lines printed to stdout
WorkerPrint ==
    /\ scan.pc = "searched"
    /\ scan' = [scan EXCEPT !.pc = "printed",
                  !.stdout = format_json(scan.matches, scan.pattern)]
    /\ UNCHANGED <<mem_available, other_vars, orch_vars>>

\* process_file: the parent parses the collected stdout of the worker
ParentParse ==
    /\ scan.pc = "printed"
    /\ scan' = [scan EXCEPT !.pc = "parsed", !.parsed = ParseWorkerOutput(scan.stdout)]
    /\ UNCHANGED <<mem_available, other_vars, orch_vars>>

\* SimdSearch::search_with_context on the contents of the file
SimdSearchWithContext ==
    /\ scan.pc = "start"
    /\ \E k \in ContextChoices :
          scan' = [scan EXCEPT !.pc = "simd", !.context_lines = k,
                     !.found = SimdSearch_search_with_context(Content(scan.file),
                                                              scan.pattern, k)]
    /\ UNCHANGED <<mem_available, other_vars, orch_vars>>

\* BoyerMoore::search_with_context on the contents of the file
BoyerMooreSearchWithContext ==
    /\ scan.pc = "start"
    /\ \E k \in ContextChoices :
          scan' = [scan EXCEPT !.pc = "boyer_moore", !.context_lines = k,
                     !.found = BoyerMoore_search_with_context(Content(scan.file),
                                                              scan.pattern, k)]
    /\ UNCHANGED <<mem_available, other_vars, orch_vars>>

\* StreamingSearch::search_file_streaming on the file
SearchFileStreaming ==
    /\ scan.pc = "start"
    /\ \E k \in ContextChoices :
          scan' = [scan EXCEPT !.pc = "streaming", !.context_lines = k,
                     !.found = search_file_streaming(scan.file, scan.path, scan.pattern,
                                                     k, ChunkBytes)]
    /\ UNCHANGED <<mem_available, other_vars, orch_vars>>

NextScan ==
    \/ WorkerSearch
    \/ WorkerPrint
    \/ ParentParse
    \/ SimdSearchWithContext
    \/ BoyerMooreSearchWithContext
    \/ SearchFileStreaming

SpecScan == InitScan /\ [][NextScan]_vars

(* ------------- one text: the search of each algorithm ----------------- *)

\* the outcome of a search: the offsets it returns, or a panic
Offsets(seq) == [ok |-> TRUE, offsets |-> seq]

Panic == [ok |-> FALSE, offsets |-> <<>>]

\* str::find: the first occurrence of pattern in text[start..], relative to
\* start, or -1; the empty pattern is found at 0
StrFind(text, pattern, start) ==
    LET pos == MemmemFind(text, pattern, start)
    IN  IF pos < 0 THEN -1 ELSE pos - start

\* the while loop of SimpleSearch::search; text[start..] panics once start
\* is beyond the end of the text
RECURSIVE SimpleLoop(_, _, _, _)
SimpleLoop(text, pattern, start, found) ==
    IF start > Len(text) THEN Panic
    ELSE LET pos == StrFind(text, pattern, start)
         IN  IF pos < 0 THEN Offsets(found)
             ELSE SimpleLoop(text, pattern, start + pos + 1, Append(found, start + pos))

\* SimpleSearch::search
SimpleSearch_search(text, pattern) == SimpleLoop(text, pattern, 0, <<>>)

\* Regex::find_iter for a literal pattern: successive leftmost matches, none
\* overlapping the one before; after an empty match the search moves on by one
RECURSIVE FindIter(_, _, _)
FindIter(text, pattern, pos) ==
    LET start == MemmemFind(text, pattern, pos)
        end == start + Len(pattern)
    IN  IF pos > Len(text) \/ start < 0 THEN <<>>
        ELSE <<start>> \o FindIter(text, pattern, IF end > start THEN end ELSE start + 1)

\* RegexSearch::search
RegexSearch_search(text, pattern) == Offsets(FindIter(text, pattern, 0))

\* build_regex in SearchMode::Text: regex::escape(pattern) matches the
\* characters of pattern literally, and the empty pattern the empty string
build_regex(pattern) == pattern

\* the search the command line runs on a file holding text as its one line:
\* the column_start of the records of processor::search_file
CliSearch(text, pattern) ==
    LET found == search_file([lines |-> <<text>>, size |-> 0, eol |-> TRUE],
                             build_regex(pattern), Files[1], -1)
    IN  Offsets([i \in 1..Len(found) |-> found[i].column_start])

SearchTexts == SeqsUpTo({"a", "b"}, MaxText)

SearchPatterns == SeqsUpTo({"a", "b"}, MaxPattern)

InitSearch ==
    /\ mem_available = -1
    /\ scan = ScanIdle
    /\ \E text \in SearchTexts, pattern \in SearchPatterns :
          search = [pc |-> "start", text |-> text, pattern |-> pattern,
                    algorithm |-> "none", result |-> Offsets(<<>>)]
    /\ entry = EntryIdle
    /\ nd = NdIdle
    /\ MoreIdle
    /\ OrchIdle

\* search/algorithms.rs: SimdSearch::search
SimdSearchSearch ==
    /\ search.pc = "start"
    /\ search' = [search EXCEPT !.pc = "done", !.algorithm = "simd",
                    !.result = Offsets(SimdSearch_search(search.text, search.pattern))]
    /\ UNCHANGED <<mem_available, scan, entry, nd, more_vars, orch_vars>>

\* search_algorithms.rs: BoyerMoore::search
BoyerMooreSearch ==
    /\ search.pc = "start"
    /\ search' = [search EXCEPT !.pc = "done", !.algorithm = "boyer_moore",
                    !.result = Offsets(BoyerMoore_search(search.text, search.pattern))]
    /\ UNCHANGED <<mem_available, scan, entry, nd, more_vars, orch_vars>>

\* search_algorithms.rs: SimpleSearch::search
SimpleSearchSearch ==
    /\ search.pc = "start"
    /\ search' = [search EXCEPT !.pc = "done", !.algorithm = "simple",
                    !.result = SimpleSearch_search(search.text, search.pattern)]
    /\ UNCHANGED <<mem_available, scan, entry, nd, more_vars, orch_vars>>

\* search_algorithms.rs: RegexSearch::search
RegexSearchSearch ==
    /\ search.pc = "start"
    /\ search' = [search EXCEPT !.pc = "done", !.algorithm = "regex",
                    !.result = RegexSearch_search(search.text, search.pattern)]
    /\ UNCHANGED <<mem_available, scan, entry, nd, more_vars, orch_vars>>

\* main.rs: the regex of build_regex given to processor::search_file
CommandSearch ==
    /\ search.pc = "start"
    /\ search' = [search EXCEPT !.pc = "done", !.algorithm = "cli",
                    !.result = CliSearch(search.text, search.pattern)]
    /\ UNCHANGED <<mem_available, scan, entry, nd, more_vars, orch_vars>>

NextSearch ==
    \/ SimdSearchSearch
    \/ BoyerMooreSearch
    \/ SimpleSearchSearch
    \/ RegexSearchSearch
    \/ CommandSearch

SpecSearch == InitSearch /\ [][NextSearch]_vars

(* ------------- the search command, from each entry point -------------- *)

\* the entry points of a search: main of main.rs, RfgrepApp::run of app.rs,
\* RfgrepApp::run of app_simple.rs
EntryPoints == {"main", "app", "app_simple"}

\* geteuid(): root or an ordinary user
Euids == {0, 1000}

\* Err(RfgrepError::Other("Refused to run as root".to_string()))
RefusedToRunAsRoot ==
    [ok |-> FALSE, error |-> [kind |-> "Other", message |-> "Refused to run as root"]]

\* the #[cfg(unix)] block of main.rs and app.rs
RootCheck(euid, allow_root) ==
    IF euid = 0 /\ ~allow_root THEN RefusedToRunAsRoot ELSE Ok(<<>>)

\* walk_dir(...).filter(is_file): the files of the tree in directory order
walk_dir(tree) == SelectSeq(Files, LAMBDA p : p \in tree)

InitEntry ==
    /\ mem_available = -1
    /\ scan = ScanIdle
    /\ search = SearchIdle
    /\ \E point \in EntryPoints, euid \in Euids, allow_root \in BOOLEAN,
          tree \in SUBSET Paths :
          entry = [pc |-> "start", point |-> point, euid |-> euid,
                   allow_root |-> allow_root, tree |-> tree, files |-> <<>>,
                   scanned |-> <<>>, result |-> Ok(<<>>)]
    /\ nd = NdIdle
    /\ MoreIdle
    /\ OrchIdle

\* the root check at the head of an entry point, given what it evaluates to
Checked(check) ==
    /\ entry.pc = "start"
    /\ entry' = [entry EXCEPT !.pc = IF check.ok THEN "checked" ELSE "returned",
                              !.result = check]
    /\ UNCHANGED <<mem_available, scan, search, nd, more_vars, orch_vars>>

\* main.rs, lines 135-142
MainRootCheck ==
    /\ entry.point = "main"
    /\ Checked(RootCheck(entry.euid, entry.allow_root))

\* app.rs, handle_search, lines 90-97
AppRootCheck ==
    /\ entry.point = "app"
    /\ Checked(RootCheck(entry.euid, entry.allow_root))

\* app_simple.rs, handle_search: "Root check would need to be passed as
\* parameter", there is none
AppSimpleHandleSearch ==
    /\ entry.point = "app_simple"
    /\ Checked(Ok(<<>>))

\* the files of the search root are collected
Enumerate ==
    /\ entry.pc = "checked"
    /\ entry' = [entry EXCEPT !.pc = "enumerated", !.files = walk_dir(entry.tree)]
    /\ UNCHANGED <<mem_available, scan, search, nd, more_vars, orch_vars>>

\* one more of the collected files is opened and searched
ScanFile ==
    /\ entry.pc = "enumerated"
    /\ Len(entry.scanned) < Len(entry.files)
    /\ entry' = [entry EXCEPT !.scanned = Append(@, entry.files[Len(@) + 1])]
    /\ UNCHANGED <<mem_available, scan, search, nd, more_vars, orch_vars>>

\* the search is over and the entry point returns Ok(())
Return ==
    /\ entry.pc = "enumerated"
    /\ Len(entry.scanned) = Len(entry.files)
    /\ entry' = [entry EXCEPT !.pc = "returned"]
    /\ UNCHANGED <<mem_available, scan, search, nd, more_vars, orch_vars>>

NextEntry ==
    \/ MainRootCheck
    \/ AppRootCheck
    \/ AppSimpleHandleSearch
    \/ Enumerate
    \/ ScanFile
    \/ Return

SpecEntry == InitEntry /\ [][NextEntry]_vars

(* ------------- one file: the choice of the read strategy -------------- *)

\* AdaptiveSearch::new: small_file_threshold and large_file_threshold, and
\* the threshold of its MemoryMappedSearch, in MiB
SMALL_FILE_THRESHOLD == 1

LARGE_FILE_THRESHOLD == 100

\* is_binary_content: more than 30% of the sampled bytes are null bytes
is_binary_content(file) == file.binary

\* BufRead::lines() over the file: every line is read, by the loop or as
\* context, and a line that is not valid UTF-8 is an InvalidData error that
\* `?` returns
find_matches_streaming_io(file, pattern, path) ==
    IF file.utf8 THEN Ok(find_matches_streaming(file.lines, pattern, path))
    ELSE Err(path, "Io")

\* processor::search_file with the strategy it takes and the warning it logs
search_file_read(file, pattern, path, mem) ==
    IF should_skip(file)
    THEN [strategy |-> "Skipped", warned |-> FALSE, result |-> Ok(<<>>)]
    ELSE IF file.size >= get_adaptive_mmap_threshold(mem)
    THEN IF is_binary_content(file)
         THEN [strategy |-> "Skipped", warned |-> FALSE, result |-> Ok(<<>>)]
         ELSE IF file.utf8
         THEN [strategy |-> "Mapped", warned |-> FALSE,
               result |-> Ok(find_matches_with_context(file.lines, pattern, path))]
         ELSE [strategy |-> "Streamed", warned |-> TRUE,
               result |-> find_matches_streaming_io(file, pattern, path)]
    ELSE [strategy |-> "Streamed", warned |-> FALSE,
          result |-> find_matches_streaming_io(file, pattern, path)]

\* std::fs::read_to_string, then algorithm.search_with_context
ReadToString(file, pattern, path) ==
    IF file.utf8 THEN Ok(SimdSearch_search_with_context(Content(file), pattern, 0))
    ELSE Err(path, "Io")

\* MemoryMappedSearch::search_with_mmap: from_utf8 or Err(Other("Invalid UTF-8"))
search_with_mmap(file, pattern, path) ==
    IF file.utf8 THEN Ok(SimdSearch_search_with_context(Content(file), pattern, 0))
    ELSE Err(path, "Invalid UTF-8")

\* MemoryMappedSearch::search_mmap
search_mmap(file, pattern, path) ==
    IF file.size > LARGE_FILE_THRESHOLD
    THEN [strategy |-> "Mapped", warned |-> FALSE,
          result |-> search_with_mmap(file, pattern, path)]
    ELSE [strategy |-> "InMemory", warned |-> FALSE,
          result |-> ReadToString(file, pattern, path)]

\* AdaptiveSearch::search_adaptive; the streaming reader decodes its chunks
\* with from_utf8_lossy
search_adaptive(file, pattern, path) ==
    IF file.size < SMALL_FILE_THRESHOLD
    THEN [strategy |-> "InMemory", warned |-> FALSE,
          result |-> ReadToString(file, pattern, path)]
    ELSE IF file.size < LARGE_FILE_THRESHOLD
    THEN [strategy |-> "Streamed", warned |-> FALSE,
          result |-> Ok(search_file_streaming(file, path, pattern, 0, ChunkBytes))]
    ELSE search_mmap(file, pattern, path)

\* sizes in MiB around the thresholds
ReadSizes ==
    {0, SMALL_FILE_THRESHOLD, MMAP_THRESHOLD, LARGE_FILE_THRESHOLD - 1,
     LARGE_FILE_THRESHOLD, LARGE_FILE_THRESHOLD + 1}

ReadFiles ==
    [lines : {<< <<"a">> >>, << <<"b">>, <<"a">> >>}, size : ReadSizes, eol : {TRUE},
     utf8 : BOOLEAN, binary : BOOLEAN]

InitRead ==
    /\ BaseIdle
    /\ \E file \in ReadFiles, mem \in MemChoices :
          read = [pc |-> "start", file |-> file, mem |-> mem, reader |-> "none",
                  strategy |-> "none", warned |-> FALSE, result |-> Ok(<<>>)]
    /\ classifier = Idle
    /\ filter = Idle
    /\ cache = Idle
    /\ pool = Idle
    /\ exec = Idle
    /\ mm = Idle

\* processor::search_file(path, &regex)
SearchFileRead ==
    /\ read.pc = "start"
    /\ LET r == search_file_read(read.file, Query, Files[1], read.mem)
       IN  read' = [read EXCEPT !.pc = "done", !.reader = "processor",
                      !.strategy = r.strategy, !.warned = r.warned, !.result = r.result]
    /\ UNCHANGED <<base_vars, classifier, filter, cache, pool, exec, mm>>

\* AdaptiveSearch::search_adaptive(path, pattern, algorithm, context_lines)
SearchAdaptive ==
    /\ read.pc = "start"
    /\ LET r == search_adaptive(read.file, Query, Files[1])
       IN  read' = [read EXCEPT !.pc = "done", !.reader = "adaptive",
                      !.strategy = r.strategy, !.warned = r.warned, !.result = r.result]
    /\ UNCHANGED <<base_vars, classifier, filter, cache, pool, exec, mm>>

NextRead ==
    \/ SearchFileRead
    \/ SearchAdaptive

SpecRead == InitRead /\ [][NextRead]_vars

(* ------------------------ main.rs: the search ------------------------- *)

\* files.par_chunks(chunk_size)
RECURSIVE par_chunks(_, _)
par_chunks(files, chunk_size) ==
    IF Len(files) <= chunk_size THEN (IF files = <<>> THEN <<>> ELSE <<files>>)
    ELSE <<SubSeq(files, 1, chunk_size)>>
         \o par_chunks(SubSeq(files, chunk_size + 1, Len(files)), chunk_size)

\* let chunk_size = (files.len() / num_cores).max(1)
ChunkSize(files, num_cores) ==
    IF Len(files) \div num_cores >= 1 THEN Len(files) \div num_cores ELSE 1

\* Vec::sort on SearchMatch: insertion after the last element not greater
RECURSIVE InsertSorted(_, _)
InsertSorted(m, sorted) ==
    IF sorted = <<>> THEN <<m>>
    ELSE IF SearchMatchCmp(m, Head(sorted)) < 0 THEN <<m>> \o sorted
         ELSE <<Head(sorted)>> \o InsertSorted(m, Tail(sorted))

RECURSIVE SortFrom(_, _)
SortFrom(s, acc) ==
    IF s = <<>> THEN acc ELSE SortFrom(Tail(s), InsertSorted(Head(s), acc))

Unsorted(s) == s

\* matches.sort()
Sort(s) == SortFrom(s, <<>>)

\* matches.truncate(max_matches) when the limit is set and exceeded
Truncate(s, max_matches) ==
    IF max_matches.some /\ Len(s) > max_matches.val
    THEN SubSeq(s, 1, max_matches.val) ELSE s

TruncateThenSort(collected, max_matches) == Sort(Truncate(collected, max_matches))

\* main, lines 237-245: sort, then apply the limit
SortAndTruncate(collected, max_matches) == Truncate(Sort(collected), max_matches)

ExtendOverwrites(collector, r) == IF r.ok /\ r.value # <<>> THEN r.value ELSE collector

\* the Ok arm of main's match on process_file: append under the lock
Extend(collector, r) == IF r.ok THEN collector \o r.value ELSE collector

ErrorDropped(errors, r) == errors

\* the Err arm of main's match on process_file: push under the lock
PushError(errors, r) == IF r.ok THEN errors ELSE Append(errors, r.error)

\* process_file, lines 641-647 and 756-760: files_skipped or matches_found
CountResult(m, results) ==
    IF results = <<>> THEN [m EXCEPT !.files_skipped = @ + 1]
    ELSE [m EXCEPT !.matches_found = @ + Len(results)]

TimeoutKeepsFlushed(path, pipe) == Ok(ParseWorkerOutput(pipe))

TimeoutIsError(path, pipe) == Err(path, "Timeout")

\* process_file, line 709: what a timed-out file returns
TimeoutResult(path, pipe) == Ok(<<>>)

\* the entry chunk c is at
Entry(c) == chunks[c][next_entry[c] + 1]

Busy(c) ==
    /\ pc = "scanning"
    /\ c \in DOMAIN chunks
    /\ next_entry[c] < Len(chunks[c])

\* what the worker for path p finds, and prints line by line
WorkerMatches(p) ==
    IF fs[p].readable THEN search_file(fs[p], Query, p, mem_available) ELSE <<>>

InitOrch ==
    /\ mem_available \in MemChoices
    /\ scan = ScanIdle
    /\ search = SearchIdle
    /\ entry = EntryIdle
    /\ nd = NdIdle
    /\ MoreIdle
    /\ exit_code = None
    /\ fs \in [Paths -> OrchFiles]
    /\ cli \in [timeout_per_file : {None, Some(1)}, max_matches : MaxMatchesChoices]
    /\ \E num_cores \in 1..2 : chunks = par_chunks(Files, ChunkSize(Files, num_cores))
    /\ next_entry = [c \in DOMAIN chunks |-> 0]
    /\ child = [c \in DOMAIN chunks |-> NoChild]
    /\ matches = <<>>
    /\ processing_errors = <<>>
    /\ metrics = [files_scanned |-> 0, matches_found |-> 0, files_skipped |-> 0,
                  worker_timeouts |-> 0]
    /\ warnings = <<>>
    /\ outcome = [p \in Paths |-> "pending"]
    /\ returned = [p \in Paths |-> <<>>]
    /\ flushed = [p \in Paths |-> <<>>]
    /\ output = <<>>
    /\ reported = <<>>
    /\ pc = "scanning"

\* the loop body of main for one entry, given what process_file returned
Finish(c, r, how, m) ==
    /\ matches' = Extend(matches, r)
    /\ processing_errors' = PushError(processing_errors, r)
    /\ metrics' = m
    /\ outcome' = [outcome EXCEPT ![Entry(c)] = how]
    /\ returned' = [returned EXCEPT ![Entry(c)] = IF r.ok THEN r.value ELSE <<>>]
    /\ next_entry' = [next_entry EXCEPT ![c] = @ + 1]
    /\ child' = [child EXCEPT ![c] = NoChild]
    /\ UNCHANGED <<mem_available, scan, other_vars, exit_code, fs, cli, chunks, output, reported, pc>>

\* process_file without --timeout-per-file: search_file in this process
InProcess(c) ==
    /\ Busy(c)
    /\ ~cli.timeout_per_file.some
    /\ LET p == Entry(c)
           scanned == [metrics EXCEPT !.files_scanned = @ + 1]
       IN  IF fs[p].readable
           THEN LET v == search_file(fs[p], Query, p, mem_available)
                IN  Finish(c, Ok(v), "ok", CountResult(scanned, v))
           ELSE Finish(c, Err(p, "Io"), "error", scanned)
    /\ UNCHANGED <<warnings, flushed>>

\* process_file with a timeout: the worker is spawned
Spawn(c) ==
    /\ Busy(c)
    /\ cli.timeout_per_file.some
    /\ child[c].state = "none"
    /\ metrics' = [metrics EXCEPT !.files_scanned = @ + 1]
    /\ child' = [child EXCEPT ![c] =
                    [state |-> "running", todo |-> format_json(WorkerMatches(Entry(c)), Query),
                     pipe |-> <<>>, status |-> 0]]
    /\ UNCHANGED <<mem_available, scan, other_vars, exit_code, fs, cli, chunks, next_entry,
                   matches,
                   processing_errors, warnings, outcome, returned, flushed, output,
                   reported, pc>>

\* cmd.spawn() fails: "Spawn worker failed"
SpawnFail(c) ==
    /\ Busy(c)
    /\ cli.timeout_per_file.some
    /\ child[c].state = "none"
    /\ Finish(c, Err(Entry(c), "Spawn"), "error", [metrics EXCEPT !.files_scanned = @ + 1])
    /\ UNCHANGED <<warnings, flushed>>

\* the worker writes its next NDJSON line; the pipe takes it while it has room
WorkerWrite(c) ==
    /\ Busy(c)
    /\ child[c].state = "running"
    /\ child[c].todo # <<>>
    /\ Len(child[c].pipe) < PipeCap
    /\ child' = [child EXCEPT ![c].todo = Tail(@), ![c].pipe = Append(@, Head(child[c].todo))]
    /\ UNCHANGED <<mem_available, scan, other_vars, exit_code, fs, cli, chunks, next_entry,
                   matches,
                   processing_errors, metrics, warnings, outcome, returned, flushed,
                   output, reported, pc>>

\* the worker returns from main: 0 after printing, 1 when search_file failed
WorkerExit(c) ==
    /\ Busy(c)
    /\ child[c].state = "running"
    /\ child[c].todo = <<>>
    /\ child' = [child EXCEPT ![c].state = "exited",
                              ![c].status = IF fs[Entry(c)].readable THEN 0 ELSE 1]
    /\ UNCHANGED <<mem_available, scan, other_vars, exit_code, fs, cli, chunks, next_entry,
                   matches,
                   processing_errors, metrics, warnings, outcome, returned, flushed,
                   output, reported, pc>>

\* the worker dies before it is done (a signal, an abort): non-zero status,
\* what it had written stays in the pipe
WorkerCrash(c) ==
    /\ Busy(c)
    /\ child[c].state = "running"
    /\ child' = [child EXCEPT ![c].state = "exited", ![c].status = 137]
    /\ UNCHANGED <<mem_available, scan, other_vars, exit_code, fs, cli, chunks, next_entry,
                   matches,
                   processing_errors, metrics, warnings, outcome, returned, flushed,
                   output, reported, pc>>

\* the matches whose lines the worker for the entry of chunk c has written
Written(c) ==
    Take(WorkerMatches(Entry(c)), Len(WorkerMatches(Entry(c))) - Len(child[c].todo))

\* process_file, lines 687-710: try_wait gives None and the time is up
Timeout(c) ==
    /\ Busy(c)
    /\ child[c].state = "running"
    /\ warnings' = Append(warnings, Entry(c))
    /\ flushed' = [flushed EXCEPT ![Entry(c)] = Written(c)]
    /\ Finish(c, TimeoutResult(Entry(c), child[c].pipe), "timeout",
              [metrics EXCEPT !.worker_timeouts = @ + 1])

\* process_file, lines 686 and 721-762: the child has exited, its output is
\* collected and parsed, whatever its exit status
Collect(c) ==
    /\ Busy(c)
    /\ child[c].state = "exited"
    /\ flushed' = [flushed EXCEPT ![Entry(c)] = Written(c)]
    /\ LET results == ParseWorkerOutput(child[c].pipe)
       IN  Finish(c, Ok(results), IF child[c].status = 0 THEN "ok" ELSE "worker_failed",
                  CountResult(metrics, results))
    /\ UNCHANGED warnings

\* main, lines 237-302: the collector is sorted, limited and printed
Aggregate ==
    /\ pc = "scanning"
    /\ \A c \in DOMAIN chunks : next_entry[c] = Len(chunks[c])
    /\ output' = SortAndTruncate(matches, cli.max_matches)
    /\ pc' = "aggregated"
    /\ UNCHANGED <<mem_available, scan, other_vars, exit_code, fs, cli, chunks, next_entry,
                   child, matches,
                   processing_errors, metrics, warnings, outcome, returned, flushed,
                   reported>>

\* Termination for Result<(), E>: what the process exits with when main returns
ExitStatus(result) == IF result.ok THEN 0 ELSE 1

\* main, lines 304-545: the collected errors go to stderr, then main returns
\* Ok(()) whether or not a match was found
ReportErrors ==
    /\ pc = "aggregated"
    /\ reported' = processing_errors
    /\ pc' = "done"
    /\ exit_code' = Some(ExitStatus(Ok(<<>>)))
    /\ UNCHANGED <<mem_available, scan, other_vars, fs, cli, chunks, next_entry, child,
                   matches,
                   processing_errors, metrics, warnings, outcome, returned, flushed,
                   output>>

NextOrch ==
    \/ \E c \in DOMAIN chunks :
          \/ InProcess(c)
          \/ Spawn(c)
          \/ SpawnFail(c)
          \/ WorkerWrite(c)
          \/ WorkerExit(c)
          \/ WorkerCrash(c)
          \/ Timeout(c)
          \/ Collect(c)
    \/ Aggregate
    \/ ReportErrors

SpecOrch == InitOrch /\ [][NextOrch]_vars

(* ------------------- main.rs: the NDJSON channel ---------------------- *)

\* the chunks of files.par_chunks, each run by a thread of the pool
NdProducers == 1..2

\* the matches chunk p found: its number stands for the path
NdMatches(p, n) == [i \in 1..n |-> [path |-> p, line_number |-> i]]

\* crossbeam_channel::bounded(cap): a send goes through while there is room
CanSend(queue) == Len(queue) < ChannelCap

\* rx.recv() returns: with a message while one is queued, with Err once the
\* channel is empty and no Sender is left; otherwise it blocks
CanRecv(queue, senders) == queue # <<>> \/ senders = 0

InitNd ==
    /\ mem_available = -1
    /\ scan = ScanIdle
    /\ search = SearchIdle
    /\ entry = EntryIdle
    /\ \E ndjson \in BOOLEAN, n \in [NdProducers -> 0..MaxSend] :
          nd = [pc |-> "parallel", ndjson |-> ndjson,
                todo |-> [p \in NdProducers |-> NdMatches(p, n[p])],
                queue |-> <<>>, senders |-> IF ndjson THEN 1 ELSE 0,
                collector |-> <<>>, printed |-> <<>>]
    /\ MoreIdle
    /\ OrchIdle

\* main, lines 196-201: tx.send(m) for the next match of the chunk; the
\* thread stays in the call while the channel is full
Send(p) ==
    /\ nd.pc = "parallel"
    /\ nd.ndjson
    /\ nd.todo[p] # <<>>
    /\ CanSend(nd.queue)
    /\ nd' = [nd EXCEPT !.queue = Append(@, Head(nd.todo[p])), !.todo[p] = Tail(@)]
    /\ UNCHANGED <<mem_available, scan, search, entry, more_vars, orch_vars>>

\* main, lines 202-205: without NDJSON the matches go to the collector
ExtendCollector(p) ==
    /\ nd.pc = "parallel"
    /\ ~nd.ndjson
    /\ nd.todo[p] # <<>>
    /\ nd' = [nd EXCEPT !.collector = @ \o nd.todo[p], !.todo[p] = <<>>]
    /\ UNCHANGED <<mem_available, scan, search, entry, more_vars, orch_vars>>

\* main, lines 215-218: for_each returns once every chunk is done, and only
\* then main looks at nd_rx; nd_tx stays alive in main's scope
ForEachReturns ==
    /\ nd.pc = "parallel"
    /\ \A p \in NdProducers : nd.todo[p] = <<>>
    /\ nd' = [nd EXCEPT !.pc = IF nd.ndjson THEN "draining" ELSE "done"]
    /\ UNCHANGED <<mem_available, scan, search, entry, more_vars, orch_vars>>

\* main, lines 229-234: while let Ok(m) = rx.recv() { print }
Recv ==
    /\ nd.pc = "draining"
    /\ CanRecv(nd.queue, nd.senders)
    /\ nd' = IF nd.queue # <<>>
             THEN [nd EXCEPT !.queue = Tail(@), !.printed = Append(@, Head(nd.queue))]
             ELSE [nd EXCEPT !.pc = "done"]
    /\ UNCHANGED <<mem_available, scan, search, entry, more_vars, orch_vars>>

NextNd ==
    \/ \E p \in NdProducers :
          \/ Send(p)
          \/ ExtendCollector(p)
    \/ ForEachReturns
    \/ Recv

\* the threads of the pool and the main thread all keep running
SpecNdjson ==
    /\ InitNd
    /\ [][NextNd]_vars
    /\ \A p \in NdProducers : WF_vars(Send(p)) /\ WF_vars(ExtendCollector(p))
    /\ WF_vars(ForEachReturns)
    /\ WF_vars(Recv)

(* ----------------------------- properties ----------------------------- *)

Range(s) == {s[i] : i \in DOMAIN s}

Aggregated == pc \in {"aggregated", "done"}

Scanned == scan.pc \in {"searched", "printed", "parsed"}

\* the order of the key (path, line_number, column_start, column_end), the
\* paths compared by cmp_path
KeyLeq(cmp_path, m1, m2) ==
    LET k == <<cmp_path, CmpNat(m1.line_number, m2.line_number),
               CmpNat(m1.column_start, m2.column_start),
               CmpNat(m1.column_end, m2.column_end)>>
        d == {i \in 1..4 : k[i] # 0}
    IN  d = {} \/ k[Min(d)] < 0

\* C1 as stated: the aggregated list is non-decreasing under the key (path,
\* line_number, column_start, column_end) with paths compared byte-wise.
C1_SortedBytewise ==
    Aggregated =>
        \A i \in 1..(Len(output) - 1) :
            KeyLeq(CmpStr(output[i].path, output[i + 1].path), output[i], output[i + 1])

\* C1 amended: the aggregated list is non-decreasing under the key (path,
\* line_number, column_start, column_end) with paths compared component by
\* component, whatever the order in which the workers appended.
C1_SortedByKey ==
    Aggregated =>
        \A i \in 1..(Len(output) - 1) :
            KeyLeq(CmpPath(output[i].path, output[i + 1].path), output[i], output[i + 1])

\* three or more records of several files, appended in another order
C1_Witness ==
    /\ pc = "done"
    /\ Len(output) >= 3
    /\ Len(output) = Len(matches)
    /\ output # matches
    /\ \E i \in 1..(Len(output) - 1) : output[i].path # output[i + 1].path

RECURSIVE SumLen(_, _)
SumLen(f, S) ==
    IF S = {} THEN 0
    ELSE LET x == CHOOSE y \in S : TRUE IN Len(f[x]) + SumLen(f, S \ {x})

\* C2: with max_matches = N the aggregated output holds exactly
\* min(N, total matches found) records, and no record left out comes before
\* a record kept: the limit cuts the sorted list.
C2_CapHonoured ==
    (Aggregated /\ cli.max_matches.some) =>
        /\ Len(output) = MinNat(cli.max_matches.val, SumLen(returned, Paths))
        /\ Range(output) \subseteq Range(matches)
        /\ \A m \in Range(matches) \ Range(output) :
              \A i \in 1..Len(output) : SearchMatchCmp(output[i], m) < 0

\* the limit cuts, and the first record appended is not among those kept
C2_Witness ==
    /\ pc = "done"
    /\ cli.max_matches.some
    /\ Len(matches) > cli.max_matches.val
    /\ matches[1] \notin Range(output)

\* C3: every match emitted as an NDJSON line parses back, as the parent
\* parses worker output, into an equal record, context lists included.
C3_RoundTrip ==
    scan.pc = "parsed" => scan.parsed = scan.matches

\* C4 as stated: after a timeout every match the worker had flushed is in the
\* file's result.
C4_FlushedKept ==
    \A p \in DOMAIN outcome :
        outcome[p] = "timeout" => Range(flushed[p]) \subseteq Range(returned[p])

\* C4 amended: after a timeout the file's result is empty and no record of
\* the file is in the collector, whatever the worker had flushed.
C4_TimeoutDiscards ==
    \A p \in DOMAIN outcome :
        outcome[p] = "timeout" =>
            /\ returned[p] = <<>>
            /\ \A m \in Range(matches) \cup Range(output) : m.path # p

\* a worker killed on timeout after it had flushed a line the parent can parse
C4_Witness ==
    \E p \in DOMAIN outcome :
        /\ outcome[p] = "timeout"
        /\ ParseWorkerOutput(format_json(flushed[p], Query)) # <<>>

\* C5: a timed-out file is counted exactly once in worker_timeouts, leaves no
\* entry in the error list, and every file is processed before the run ends.
C5_TimeoutNotFatal ==
    /\ pc # "idle" =>
          metrics.worker_timeouts = Cardinality({p \in Paths : outcome[p] = "timeout"})
    /\ \A e \in Range(processing_errors) : outcome[e.path] # "timeout"
    /\ \A e \in Range(reported) : outcome[e.path] # "timeout"
    /\ Aggregated => \A p \in Paths : outcome[p] # "pending"

\* a file timed out, a file processed after it has its matches in the output
C5_Witness ==
    /\ pc = "done"
    /\ outcome[Files[1]] = "timeout"
    /\ \E m \in Range(output) : m.path = Files[3]

\* C6: a worker that exits non-zero after partial output has its partial
\* matches in the file's result, a warning is recorded for it, and the other
\* files are processed.
C6_WorkerFailureAccepted ==
    /\ \A p \in DOMAIN outcome :
          (outcome[p] = "worker_failed" /\ flushed[p] # <<>>) =>
              /\ returned[p] = flushed[p]
              /\ p \in Range(warnings)
    /\ Aggregated => \A p \in Paths : outcome[p] # "pending"

Streamed ==
    /\ ~should_skip(scan.file)
    /\ scan.file.size < get_adaptive_mmap_threshold(mem_available)

MatchingLines ==
    {i \in 1..Len(scan.file.lines) : RegexFind(scan.pattern, scan.file.lines[i]).found}

\* C8: streamed scanning scans every line once: the number of records is the
\* number of lines that match.
C8_EveryLineScanned ==
    (Scanned /\ Streamed) => Len(scan.matches) = Cardinality(MatchingLines)

\* the records of the scan that was run, and the context_lines it was run with
Records == IF Scanned THEN scan.matches ELSE scan.found

ContextLimit == IF Scanned THEN CONTEXT_LINES ELSE scan.context_lines

\* C9: the line_number of every record is the 1-based index of a line that
\* contains the match, the line the record holds in its line field.
C9_LineNumber ==
    \A m \in Range(Records) :
        /\ m.line_number \in MatchingLines
        /\ scan.file.lines[m.line_number] = m.line

StrictlyIncreasing(ctx) ==
    \A i \in 1..(Len(ctx) - 1) : ctx[i][1] < ctx[i + 1][1]

\* C10: context_before and context_after hold at most context_lines entries;
\* the line numbers of context_before are below the record's line_number and
\* increasing, those of context_after above it and increasing.
C10_ContextBounds ==
    \A m \in Range(Records) :
        /\ Len(m.context_before) <= ContextLimit
        /\ Len(m.context_after) <= ContextLimit
        /\ StrictlyIncreasing(m.context_before)
        /\ StrictlyIncreasing(m.context_after)
        /\ \A e \in Range(m.context_before) : e[1] < m.line_number
        /\ \A e \in Range(m.context_after) : e[1] > m.line_number

\* the lines max(1, n - k) .. n - 1 of the file with their 1-based numbers
PrecedingLines(lines, n, k) ==
    LET first == IF n - k >= 1 THEN n - k ELSE 1
    IN  [j \in 1..(n - first) |-> <<first + j - 1, lines[first + j - 1]>>]

\* C11: the context_before of a record on line n, produced with
\* context_lines = k, is exactly the lines max(1, n - k) .. n - 1, each with
\* its own line number, in whole-buffer and in streamed scanning.
C11_ContextBefore ==
    \A m \in Range(Records) :
        m.context_before = PrecedingLines(scan.file.lines, m.line_number, ContextLimit)

\* line[column_start .. column_end], a slice that exists only within the line
LineSlice(m) ==
    IF m.column_start <= m.column_end /\ m.column_end <= Len(m.line)
    THEN Some(SubSeq(m.line, m.column_start + 1, m.column_end))
    ELSE None

\* C12: for every record with a non-empty matched_text, the slice
\* line[column_start .. column_end] equals matched_text, on any line of the input.
C12_MatchSubstring ==
    \A m \in Range(Records) :
        m.matched_text # <<>> => LineSlice(m) = Some(m.matched_text)

\* the offsets of the non-overlapping occurrences of pattern in text from
\* pos on, leftmost first: after a match at start ending at e the search
\* goes on at max(e, start + 1)
RECURSIVE NonOverlapping(_, _, _)
NonOverlapping(text, pattern, pos) ==
    LET start == MemmemFind(text, pattern, pos)
        e == start + Len(pattern)
    IN  IF pos > Len(text) \/ start < 0 THEN <<>>
        ELSE <<start>> \o NonOverlapping(text, pattern, IF e > start THEN e ELSE start + 1)

RECURSIVE SumOver(_, _)
SumOver(f, S) ==
    IF S = {} THEN 0
    ELSE LET x == CHOOSE y \in S : TRUE IN f[x] + SumOver(f, S \ {x})

\* the number of records the search of scan.file owes
ExpectedRecords ==
    LET lines == scan.file.lines
        per_line == [i \in 1..Len(lines) |->
                        Len(NonOverlapping(lines[i], scan.pattern, 0))]
    IN  IF scan.invert_match
        THEN Cardinality({i \in 1..Len(lines) : per_line[i] = 0})
        ELSE SumOver(per_line, 1..Len(lines))

\* C14: with invert_match the number of records is the number of lines
\* without a match; without it, the number of non-overlapping matches, every
\* match of a line counted.
C14_InvertComplement ==
    (Scanned /\ ~should_skip(scan.file)) => Len(scan.matches) = ExpectedRecords

\* C18: a search that completes exits with 0 when at least one match was
\* found and with 1 when none was.
C18_ExitCode ==
    pc = "done" => exit_code = Some(IF output = <<>> THEN 1 ELSE 0)

Searched == search.pc = "done"

\* C13: the offsets a search returns are in non-decreasing order and the
\* matches do not overlap: they are the leftmost non-overlapping occurrences,
\* 0 and 2 for the needle aa over the text aaaa.
C13_NonOverlapping ==
    (Searched /\ search.pattern # <<>> /\ search.algorithm # "cli") =>
        /\ search.result.ok
        /\ search.result.offsets = NonOverlapping(search.text, search.pattern, 0)

\* C15: for the empty pattern every search returns, and returns no match.
C15_EmptyPattern ==
    (Searched /\ search.pattern = <<>>) =>
        /\ search.result.ok
        /\ search.result.offsets = <<>>

\* the match lists process_file returned, file after file in the order of
\* the enumeration
RECURSIVE InEnumerationOrder(_)
InEnumerationOrder(i) ==
    IF i > Len(Files) THEN <<>> ELSE returned[Files[i]] \o InEnumerationOrder(i + 1)

\* C16: the aggregated output is fixed by the enumerated paths and the match
\* list of each file: it is the sorted, limited list of those matches in
\* whatever order the parallel workers appended them to the collector.
C16_Deterministic ==
    Aggregated => output = SortAndTruncate(InEnumerationOrder(1), cli.max_matches)

\* two files were appended to the collector against the enumeration order
C16_Witness ==
    /\ Aggregated
    /\ Len(output) >= 2
    /\ \E i, j \in DOMAIN matches :
          i < j /\ matches[i].path = Files[3] /\ matches[j].path = Files[1]

AsRootWithoutLeave == entry.pc # "idle" /\ entry.euid = 0 /\ ~entry.allow_root

\* C17: with effective UID 0 and allow_root not set, the search refuses to
\* run: no file is enumerated or scanned, from whichever entry point, and
\* what the entry point returns is the refusal.
C17_RefusedAsRoot ==
    AsRootWithoutLeave =>
        /\ entry.pc \in {"start", "returned"}
        /\ entry.files = <<>> /\ entry.scanned = <<>>
        /\ entry.pc = "returned" => entry.result = RefusedToRunAsRoot

\* C19: in NDJSON mode no producer stays blocked on the full channel: every
\* match a chunk has to send is eventually sent.
C19_SendCompletes ==
    \A p \in NdProducers :
        (nd.pc = "parallel" /\ nd.ndjson /\ nd.todo[p] # <<>>) ~> (nd.todo[p] = <<>>)

\* C20: in NDJSON mode, once the producers are done and the channel is
\* drained, the receive loop of the sink ends and the run goes on.
C20_SinkTerminates ==
    (nd.pc = "draining" /\ nd.queue = <<>>) ~> (nd.pc = "done")

\* the worker for path p has finished its scan and waits for room in the
\* pipe of its stdout, which process_file reads only after the worker exits
BlockedOnPipe(p) ==
    \E c \in DOMAIN chunks :
        /\ Busy(c) /\ Entry(c) = p
        /\ child[c].state = "running"
        /\ child[c].todo # <<>>
        /\ Len(child[c].pipe) >= PipeCap

\* C21: a worker whose scan is done is not reported as timed out because of
\* the volume of its output: no file times out while its worker is blocked
\* writing to the pipe.
C21_NoTimeoutByVolume ==
    [][\A p \in Paths :
          (outcome[p] # "timeout" /\ outcome'[p] = "timeout") => ~BlockedOnPipe(p)]_vars

\* the size from which the reader stops mapping: the adaptive threshold of
\* processor.rs, large_file_threshold of AdaptiveSearch
mmap_ceiling ==
    IF read.reader = "processor" THEN get_adaptive_mmap_threshold(read.mem)
    ELSE LARGE_FILE_THRESHOLD

\* C22: the read strategy follows from the size alone: InMemory below 1 MiB,
\* Mapped from there up to mmap_ceiling, Streamed from mmap_ceiling on.
C22_StrategyBySize ==
    (read.pc = "done" /\ read.strategy # "Skipped" /\ read.file.utf8) =>
        read.strategy =
            IF read.file.size < SMALL_FILE_THRESHOLD THEN "InMemory"
            ELSE IF read.file.size < mmap_ceiling THEN "Mapped" ELSE "Streamed"

\* the reader went for a memory map of the file
TriedMapping ==
    \/ /\ read.reader = "processor"
       /\ ~should_skip(read.file)
       /\ read.file.size >= get_adaptive_mmap_threshold(read.mem)
       /\ ~is_binary_content(read.file)
    \/ /\ read.reader = "adaptive"
       /\ read.file.size > LARGE_FILE_THRESHOLD

\* C23: invalid UTF-8 in a mapped file makes the scan fall back to streamed
\* reading and complete without an error, with a warning.
C23_Utf8Fallback ==
    (read.pc = "done" /\ TriedMapping /\ ~read.file.utf8) =>
        /\ read.strategy = "Streamed"
        /\ read.warned
        /\ read.result.ok

(* ------------------ file_types.rs: the classifier --------------------- *)

MaxRules == 3

\* one extension of each of the four lists of FileTypeClassifier::new, and
\* one that is in none of them
Exts == {"txt", "pdf", "exe", "key", "foo"}

SearchModes == {"FullText", "Metadata"}

\* SearchDecision: Search(mode), Skip(reason), Conditional(mode, reason)
Decisions ==
    [kind : {"Search", "Conditional"}, mode : SearchModes]
        \cup {[kind |-> "Skip", mode |-> "none"]}

\* FileTypeClassifier::new(), restricted to Exts
FileTypeClassifier_new ==
    [always_search      |-> {"txt"},
     conditional_search |-> {"pdf"},
     skip_by_default    |-> {"exe"},
     never_search       |-> {"key"},
     search_modes       |-> [e \in Exts |-> IF e = "pdf" THEN "Metadata" ELSE "none"]]

\* FileTypeClassifier::add_custom_rule(ext, decision)
add_custom_rule(c, ext, decision) ==
    CASE decision.kind = "Search" ->
            [c EXCEPT !.always_search = @ \cup {ext},
                      !.search_modes[ext] = decision.mode]
      [] decision.kind = "Skip" ->
            [c EXCEPT !.never_search = @ \cup {ext}]
      [] decision.kind = "Conditional" ->
            [c EXCEPT !.conditional_search = @ \cup {ext},
                      !.search_modes[ext] = decision.mode]

InitClassifier ==
    /\ BaseIdle
    /\ classifier = [pc |-> "built", sets |-> FileTypeClassifier_new, rules |-> 0]
    /\ read = Idle
    /\ filter = Idle
    /\ cache = Idle
    /\ pool = Idle
    /\ exec = Idle
    /\ mm = Idle

\* classifier.add_custom_rule(ext, decision)
AddCustomRule ==
    /\ classifier.pc = "built"
    /\ classifier.rules < MaxRules
    /\ \E ext \in Exts, decision \in Decisions :
          classifier' = [classifier EXCEPT
                            !.sets = add_custom_rule(@, ext, decision),
                            !.rules = @ + 1]
    /\ UNCHANGED <<base_vars, read, filter, cache, pool, exec, mm>>

NextClassifier == AddCustomRule

SpecClassifier == InitClassifier /\ [][NextClassifier]_vars

\* C24: after construction and after any sequence of add_custom_rule calls
\* the four extension sets are pairwise disjoint.
C24_SetsDisjoint ==
    classifier.pc = "built" =>
        LET s == classifier.sets
        IN  /\ s.always_search \cap s.conditional_search = {}
            /\ s.always_search \cap s.skip_by_default = {}
            /\ s.always_search \cap s.never_search = {}
            /\ s.conditional_search \cap s.skip_by_default = {}
            /\ s.conditional_search \cap s.never_search = {}
            /\ s.skip_by_default \cap s.never_search = {}

(* ------------- app_simple.rs: the file filter of handle_search -------- *)

\* str::to_ascii_lowercase, on the extensions of the model
to_ascii_lowercase(e) == IF e = "TXT" THEN "txt" ELSE e

\* str::eq_ignore_ascii_case
eq_ignore_ascii_case(a, b) == to_ascii_lowercase(a) = to_ascii_lowercase(b)

\* processor::is_binary(path): a MIME type found by infer that is not text/
\* (a file without a signature is a text file here)
is_binary(file) == file.mime = "application/octet-stream"

\* FileTypeClassifier::size_limits, in MiB
size_limit(ext, default) ==
    CASE ext = "txt" -> 100
      [] ext = "pdf" -> 10
      [] OTHER -> default

\* FileTypeClassifier::should_search(path, metadata): TRUE for Search and
\* Conditional, FALSE for Skip
should_search(file) ==
    LET c == FileTypeClassifier_new
        ext == to_ascii_lowercase(file.ext)
    IN  IF ext \in c.never_search THEN FALSE
        ELSE IF ext \in c.always_search THEN ~(file.size > size_limit(ext, 50))
        ELSE IF ext \in c.conditional_search THEN ~(file.size > size_limit(ext, 10))
        ELSE IF ext \in c.skip_by_default THEN FALSE
        ELSE file.mime # "application/octet-stream"

\* the safety policy of the closure: FALSE when it rejects the file
safety_policy_allows(file, policy) ==
    LET c == FileTypeClassifier_new
        ext == to_ascii_lowercase(file.ext)
    IN  CASE policy = "Conservative" -> ~(file.size > 10) /\ ext \in c.always_search
          [] policy = "Performance"  -> ~(file.size > 500)
          [] OTHER -> TRUE

\* the strategy match of the closure
strategy_allows(file, o) ==
    LET c == FileTypeClassifier_new
        ext == to_ascii_lowercase(file.ext)
    IN  IF o.search_all_files THEN TRUE
        ELSE IF o.text_only THEN ext \in c.always_search
        ELSE CASE o.file_types = "Comprehensive" -> ext \notin c.never_search
               [] o.file_types = "Conservative"  -> ext \in c.always_search
               [] o.file_types = "Performance"   ->
                      ext \in c.always_search \/ ext \in c.conditional_search
               [] OTHER -> should_search(file)

Rejected(trace) == [kept |-> FALSE, trace |-> trace]

\* the closure of files.into_iter().filter(..) in handle_search: whether the
\* file is kept, and the checks that were made, in the order they were made
filter_file(file, o) ==
    LET ext == to_ascii_lowercase(file.ext)
        t1 == IF o.skip_binary THEN <<"skip_binary">> ELSE <<>>
        t2 == IF o.safety_policy # "Default" THEN Append(t1, "safety_policy") ELSE t1
        t3 == IF o.include_extensions.some THEN Append(t2, "include_ext") ELSE t2
        t4 == IF o.exclude_extensions.some THEN Append(t3, "exclude_ext") ELSE t3
        t5 == IF o.search_all_files THEN t4 ELSE Append(t4, "classifier")
        t6 == IF o.max_size.some THEN Append(t5, "max_size") ELSE t5
    IN  IF o.skip_binary /\ is_binary(file) THEN Rejected(t1)
        ELSE IF ~safety_policy_allows(file, o.safety_policy) THEN Rejected(t2)
        ELSE IF /\ o.include_extensions.some
                /\ ~\E e \in o.include_extensions.val : eq_ignore_ascii_case(e, ext)
             THEN Rejected(t3)
        ELSE IF /\ o.exclude_extensions.some
                /\ \E e \in o.exclude_extensions.val : eq_ignore_ascii_case(e, ext)
             THEN Rejected(t4)
        ELSE IF ~strategy_allows(file, o) THEN Rejected(t5)
        ELSE IF o.max_size.some /\ file.size > o.max_size.val THEN Rejected(t6)
        ELSE [kept |-> TRUE, trace |-> t6]

\* sizes in MiB
FilterFiles ==
    [ext : {"txt", "TXT", "pdf", "key", "foo"}, size : {1, 11, 501},
     mime : {"text/plain", "application/octet-stream", "none"}]

ExtLists == {None, Some({"txt"}), Some({"TXT", "pdf"}), Some({"foo", "key"})}

FilterOptions ==
    [skip_binary : BOOLEAN,
     safety_policy : {"Conservative", "Performance", "Default"},
     include_extensions : ExtLists,
     exclude_extensions : ExtLists,
     search_all_files : BOOLEAN,
     text_only : BOOLEAN,
     file_types : {"Comprehensive", "Conservative", "Performance", "Default"},
     max_size : {None, Some(10)}]

InitFilter ==
    /\ BaseIdle
    /\ \E file \in FilterFiles, o \in FilterOptions :
          filter = [pc |-> "start", file |-> file, options |-> o,
                    kept |-> FALSE, trace |-> <<>>]
    /\ read = Idle
    /\ classifier = Idle
    /\ cache = Idle
    /\ pool = Idle
    /\ exec = Idle
    /\ mm = Idle

\* one call of the filter closure
FilterFile ==
    /\ filter.pc = "start"
    /\ LET r == filter_file(filter.file, filter.options)
       IN  filter' = [filter EXCEPT !.pc = "done", !.kept = r.kept, !.trace = r.trace]
    /\ UNCHANGED <<base_vars, read, classifier, cache, pool, exec, mm>>

NextFilter == FilterFile

SpecFilter == InitFilter /\ [][NextFilter]_vars

\* the extension of the file is in the list
Listed(list) ==
    /\ list.some
    /\ \E e \in list.val : eq_ignore_ascii_case(e, filter.file.ext)

\* C25: the extension filters are applied before any safety-policy or
\* classifier decision, and an extension that is in both include_ext and
\* exclude_ext is kept by the extension filters.
C25_ExtensionFiltersFirst ==
    filter.pc = "done" =>
        /\ \A i, j \in DOMAIN filter.trace :
              (/\ filter.trace[i] \in {"safety_policy", "classifier"}
               /\ filter.trace[j] \in {"include_ext", "exclude_ext"}) => j < i
        /\ (/\ Listed(filter.options.include_extensions)
            /\ Listed(filter.options.exclude_extensions)
            /\ ~filter.kept)
               => filter.trace[Len(filter.trace)] # "exclude_ext"

(* --------------- processor.rs: the cache of compiled patterns --------- *)

MaxCalls == 2

CacheThreads == 1..2

\* pattern texts; "(" is not a regular expression
CacheTexts == {<<"a">>, <<"b">>, <<"(">>}

\* Regex::new(pattern): a new compilation of the text (id tells one
\* compilation from another; clones of a Regex share it), or an error
Regex_new(pattern, id) ==
    IF pattern = <<"(">> THEN [ok |-> FALSE, error |-> "Regex"]
    ELSE Ok([source |-> pattern, id |-> id])

insertEverywhere(map, key, value) == [k \in DOMAIN map |-> Some(value)]

\* DashMap::insert(key, value)
insert(map, key, value) == [map EXCEPT ![key] = Some(value)]

NoRegex == [source |-> <<>>, id |-> 0]

CacheThreadIdle == [pc |-> "idle", pattern |-> <<>>, regex |-> NoRegex, calls |-> 0]

InitCache ==
    /\ BaseIdle
    /\ cache = [pc |-> "run",
                map |-> [k \in CacheTexts |-> None],
                compiled |-> 0,
                thread |-> [t \in CacheThreads |-> CacheThreadIdle],
                results |-> {}]
    /\ read = Idle
    /\ classifier = Idle
    /\ filter = Idle
    /\ pool = Idle
    /\ exec = Idle
    /\ mm = Idle

\* a thread calls get_or_compile_regex(pattern)
CacheCall(t) ==
    /\ cache.pc = "run"
    /\ cache.thread[t].pc = "idle"
    /\ cache.thread[t].calls < MaxCalls
    /\ \E pattern \in CacheTexts :
          cache' = [cache EXCEPT !.thread[t].pc = "get",
                                 !.thread[t].pattern = pattern,
                                 !.thread[t].calls = @ + 1]
    /\ UNCHANGED <<base_vars, read, classifier, filter, pool, exec, mm>>

\* REGEX_CACHE.get(pattern): a hit returns a clone of the cached Regex
CacheGet(t) ==
    /\ cache.pc = "run"
    /\ cache.thread[t].pc = "get"
    /\ LET pattern == cache.thread[t].pattern
           hit == cache.map[pattern]
       IN  IF hit.some
           THEN cache' = [cache EXCEPT
                             !.thread[t].pc = "idle",
                             !.results = @ \cup {[pattern |-> pattern,
                                                  result |-> Ok(hit.val)]}]
           ELSE cache' = [cache EXCEPT !.thread[t].pc = "compile"]
    /\ UNCHANGED <<base_vars, read, classifier, filter, pool, exec, mm>>

\* Regex::new(pattern).map_err(RfgrepError::Regex)?
CacheCompile(t) ==
    /\ cache.pc = "run"
    /\ cache.thread[t].pc = "compile"
    /\ LET pattern == cache.thread[t].pattern
           r == Regex_new(pattern, cache.compiled + 1)
       IN  IF r.ok
           THEN cache' = [cache EXCEPT !.thread[t].pc = "insert",
                                       !.thread[t].regex = r.value,
                                       !.compiled = @ + 1]
           ELSE cache' = [cache EXCEPT
                             !.thread[t].pc = "idle",
                             !.results = @ \cup {[pattern |-> pattern, result |-> r]}]
    /\ UNCHANGED <<base_vars, read, classifier, filter, pool, exec, mm>>

\* REGEX_CACHE.insert(pattern.to_string(), regex.clone()); Ok(regex)
CacheInsert(t) ==
    /\ cache.pc = "run"
    /\ cache.thread[t].pc = "insert"
    /\ LET pattern == cache.thread[t].pattern
           regex == cache.thread[t].regex
       IN  cache' = [cache EXCEPT
                        !.map = insert(@, pattern, regex),
                        !.thread[t].pc = "idle",
                        !.thread[t].regex = NoRegex,
                        !.results = @ \cup {[pattern |-> pattern, result |-> Ok(regex)]}]
    /\ UNCHANGED <<base_vars, read, classifier, filter, pool, exec, mm>>

NextCache ==
    \E t \in CacheThreads :
        \/ CacheCall(t)
        \/ CacheGet(t)
        \/ CacheCompile(t)
        \/ CacheInsert(t)

SpecCache == InitCache /\ [][NextCache]_vars

\* every key of the cache holds a Pattern compiled from that key, and only
\* valid pattern texts are keys
KeysHoldTheirPattern ==
    \A k \in CacheTexts :
        cache.map[k].some =>
            /\ cache.map[k].val.source = k
            /\ Regex_new(k, cache.map[k].val.id).ok

\* two Regex values are the same Pattern when they were compiled from the
\* same text; they are the same object only if they share the compilation
SamePattern(a, b) == a.source = b.source

\* C26: under any interleaving of concurrent calls the cache is never
\* corrupted: each key holds the Pattern compiled from that key, calls with
\* the same text return the same Pattern (an error for a text that does not
\* compile), and the Pattern held for a key is one that a call returned.
C26_CacheConsistent ==
    cache.pc = "run" =>
        /\ KeysHoldTheirPattern
        /\ \A r \in cache.results :
              /\ r.result.ok = Regex_new(r.pattern, 0).ok
              /\ r.result.ok => r.result.value.source = r.pattern
        /\ \A r1, r2 \in cache.results :
              (r1.pattern = r2.pattern /\ r1.result.ok /\ r2.result.ok)
                  => SamePattern(r1.result.value, r2.result.value)
        /\ \A k \in CacheTexts :
              cache.map[k].some =>
                  [pattern |-> k, result |-> Ok(cache.map[k].val)] \in cache.results

\* two calls raced on a text that was not cached: both compiled it, both
\* inserted, and they returned different compilations
C26_Witness ==
    /\ cache.pc = "run"
    /\ \E r1, r2 \in cache.results :
          /\ r1.pattern = r2.pattern
          /\ r1.result.ok /\ r2.result.ok
          /\ r1.result.value.id # r2.result.value.id
    /\ \A t \in CacheThreads : cache.thread[t].pc = "idle"

(* ------------- performance/memory_pool.rs: the pool of mappings ------- *)

MaxPoolCalls == 2

PoolThreads == 1..2

PoolPaths == {"p1", "p2", "p3"}

\* metadata.len() of the files
file_size(path) ==
    CASE path = "p1" -> 1
      [] path = "p2" -> 2
      [] OTHER -> 4

\* the arguments of MemoryPool::new
PoolSizes == {1, 2}

Thresholds == {2, 100}

\* usize::saturating_sub
saturating_sub(a, b) == IF a > b THEN a - b ELSE 0

\* MmapMetadata of a pooled mapping; old: now - last_accessed > max_age
NoMetadata == [pooled |-> FALSE, file_size |-> 0, old |-> FALSE, access_count |-> 0]

NewMetadata(path) ==
    [pooled |-> TRUE, file_size |-> file_size(path), old |-> FALSE, access_count |-> 1]

Pooled(entries) == {p \in PoolPaths : entries[p].pooled}

RECURSIVE SubtractSizes(_, _, _)
SubtractSizes(usage, entries, paths) ==
    IF paths = {} THEN usage
    ELSE LET p == CHOOSE q \in paths : TRUE
         IN  SubtractSizes(saturating_sub(usage, entries[p].file_size), entries,
                           paths \ {p})

\* MemoryPool::cleanup_old_entries(pool, meta_map): the entries and the usage
\* counter afterwards
cleanup_old_entries(entries, usage) ==
    LET to_remove == {p \in Pooled(entries) : entries[p].old}
    IN  [entries |-> [p \in PoolPaths |->
                         IF p \in to_remove THEN NoMetadata ELSE entries[p]],
         usage   |-> SubtractSizes(usage, entries, to_remove)]

PoolThreadIdle == [pc |-> "idle", path |-> "p1", calls |-> 0]

InitPool ==
    /\ BaseIdle
    /\ \E max_pool_size \in PoolSizes, memory_threshold \in Thresholds :
          pool = [pc |-> "run",
                  max_pool_size |-> max_pool_size,
                  memory_threshold |-> memory_threshold,
                  entries |-> [p \in PoolPaths |-> NoMetadata],
                  memory_usage |-> 0,
                  thread |-> [t \in PoolThreads |-> PoolThreadIdle]]
    /\ read = Idle
    /\ classifier = Idle
    /\ filter = Idle
    /\ cache = Idle
    /\ exec = Idle
    /\ mm = Idle

CanCall(t) ==
    /\ pool.pc = "run"
    /\ pool.thread[t].pc = "idle"
    /\ pool.thread[t].calls < MaxPoolCalls

\* MemoryPool::get_mmap(path): the lookup under the read lock
GetMmap(t) ==
    /\ CanCall(t)
    /\ \E path \in PoolPaths :
          IF pool.entries[path].pooled
          THEN pool' = [pool EXCEPT !.entries[path].old = FALSE,
                                    !.entries[path].access_count = @ + 1,
                                    !.thread[t].calls = @ + 1]
          ELSE pool' = [pool EXCEPT !.thread[t].pc = "create",
                                    !.thread[t].path = path,
                                    !.thread[t].calls = @ + 1]
    /\ UNCHANGED <<base_vars, read, classifier, filter, cache, exec, mm>>

\* create_mmap: is_memory_pressure_high(), then Mmap::map
CreateCheckPressure(t) ==
    /\ pool.pc = "run"
    /\ pool.thread[t].pc = "create"
    /\ IF pool.memory_usage > pool.memory_threshold
       THEN pool' = [pool EXCEPT !.thread[t].pc = "idle"]
       ELSE pool' = [pool EXCEPT !.thread[t].pc = "usage"]
    /\ UNCHANGED <<base_vars, read, classifier, filter, cache, exec, mm>>

\* create_mmap: *usage += file_size, under the mutex of memory_usage
CreateAddUsage(t) ==
    /\ pool.pc = "run"
    /\ pool.thread[t].pc = "usage"
    /\ pool' = [pool EXCEPT !.memory_usage = @ + file_size(pool.thread[t].path),
                            !.thread[t].pc = "insert"]
    /\ UNCHANGED <<base_vars, read, classifier, filter, cache, exec, mm>>

\* create_mmap: under the write locks, clean up if the pool is full, insert
CreateInsert(t) ==
    /\ pool.pc = "run"
    /\ pool.thread[t].pc = "insert"
    /\ LET path == pool.thread[t].path
           c == IF Cardinality(Pooled(pool.entries)) >= pool.max_pool_size
                THEN cleanup_old_entries(pool.entries, pool.memory_usage)
                ELSE [entries |-> pool.entries, usage |-> pool.memory_usage]
       IN  pool' = [pool EXCEPT
                       !.entries = [c.entries EXCEPT ![path] = NewMetadata(path)],
                       !.memory_usage = c.usage,
                       !.thread[t].pc = "idle"]
    /\ UNCHANGED <<base_vars, read, classifier, filter, cache, exec, mm>>

\* MemoryPool::remove_file(path)
RemoveFile(t) ==
    /\ CanCall(t)
    /\ \E path \in PoolPaths :
          IF pool.entries[path].pooled
          THEN pool' = [pool EXCEPT
                           !.entries[path] = NoMetadata,
                           !.memory_usage =
                               saturating_sub(@, pool.entries[path].file_size),
                           !.thread[t].calls = @ + 1]
          ELSE pool' = [pool EXCEPT !.thread[t].calls = @ + 1]
    /\ UNCHANGED <<base_vars, read, classifier, filter, cache, exec, mm>>

\* MemoryPool::clear()
Clear(t) ==
    /\ CanCall(t)
    /\ pool' = [pool EXCEPT !.entries = [p \in PoolPaths |-> NoMetadata],
                            !.memory_usage = 0,
                            !.thread[t].calls = @ + 1]
    /\ UNCHANGED <<base_vars, read, classifier, filter, cache, exec, mm>>

\* MemoryPool::cleanup()
Cleanup(t) ==
    /\ CanCall(t)
    /\ LET c == cleanup_old_entries(pool.entries, pool.memory_usage)
       IN  pool' = [pool EXCEPT !.entries = c.entries,
                                !.memory_usage = c.usage,
                                !.thread[t].calls = @ + 1]
    /\ UNCHANGED <<base_vars, read, classifier, filter, cache, exec, mm>>

\* time passes: a pooled mapping was last accessed more than max_age ago
Expire ==
    /\ pool.pc = "run"
    /\ \E path \in Pooled(pool.entries) :
          /\ ~pool.entries[path].old
          /\ pool' = [pool EXCEPT !.entries[path].old = TRUE]
    /\ UNCHANGED <<base_vars, read, classifier, filter, cache, exec, mm>>

NextPool ==
    \/ \E t \in PoolThreads :
          \/ GetMmap(t)
          \/ CreateCheckPressure(t)
          \/ CreateAddUsage(t)
          \/ CreateInsert(t)
          \/ RemoveFile(t)
          \/ Clear(t)
          \/ Cleanup(t)
    \/ Expire

SpecPool == InitPool /\ [][NextPool]_vars

\* C27: the pool is bounded: it never holds more than max_pool_size mappings.
C27_PoolBounded ==
    pool.pc = "run" => Cardinality(Pooled(pool.entries)) <= pool.max_pool_size

RECURSIVE SumOfSizes(_, _)
SumOfSizes(entries, paths) ==
    IF paths = {} THEN 0
    ELSE LET p == CHOOSE q \in paths : TRUE
         IN  entries[p].file_size + SumOfSizes(entries, paths \ {p})

\* C29: when no call is in progress, the memory_usage counter equals the sum
\* of file_size over the mappings held in the pool.
C29_UsageIsSumOfSizes ==
    (pool.pc = "run" /\ \A t \in PoolThreads : pool.thread[t].pc = "idle") =>
        pool.memory_usage = SumOfSizes(pool.entries, Pooled(pool.entries))

(* ---------------- search.rs: SearchExecutor::execute ------------------ *)

MaxExecFiles == 3

\* what search_file returns for a file: no match, one match, an error
ExecOutcomes == {"none", "one", "error"}

ExecResult(path, found) ==
    CASE found = "none"  -> Ok(<<>>)
      [] found = "one"   -> Ok(<<path>>)
      [] OTHER             -> Err(path, "Io")

\* the Sender handles of the channel that are alive: tx, moved into the
\* producer closure, and _tx_clone, a local of execute
Senders ==
    (IF exec.tx THEN 1 ELSE 0) + (IF exec.tx_clone THEN 1 ELSE 0)

InitExec ==
    /\ BaseIdle
    /\ \E n \in 0..MaxExecFiles :
          \E initial_files \in [1..n -> ExecOutcomes] :
              exec = [pc |-> "collect",
                      initial_files |-> initial_files,
                      pending |-> 1..n,
                      producer |-> "running",
                      tx |-> TRUE,
                      tx_clone |-> TRUE,
                      rx |-> TRUE,
                      queue |-> <<>>,
                      stderr |-> {},
                      all_matches |-> <<>>,
                      result |-> Ok(<<>>)]
    /\ read = Idle
    /\ classifier = Idle
    /\ filter = Idle
    /\ cache = Idle
    /\ pool = Idle
    /\ mm = Idle

\* the closure of into_par_iter().for_each, for one file, in any order
ProducerFile ==
    /\ exec.pc # "idle"
    /\ exec.producer = "running"
    /\ \E i \in exec.pending :
          LET r == ExecResult(i, exec.initial_files[i])
          IN  IF ~exec.rx
              THEN exec' = [exec EXCEPT !.pending = @ \ {i}]
              ELSE IF r.ok
              THEN exec' = [exec EXCEPT !.pending = @ \ {i},
                                        !.queue = Append(@, r.value)]
              ELSE exec' = [exec EXCEPT !.pending = @ \ {i},
                                        !.stderr = @ \cup {r.error}]
    /\ UNCHANGED <<base_vars, read, classifier, filter, cache, pool, mm>>

\* the closure given to spawn_blocking returns: its tx is dropped
ProducerReturns ==
    /\ exec.pc # "idle"
    /\ exec.producer = "running"
    /\ exec.pending = {}
    /\ exec' = [exec EXCEPT !.producer = "finished", !.tx = FALSE]
    /\ UNCHANGED <<base_vars, read, classifier, filter, cache, pool, mm>>

\* while let Some(file_results) = rx.recv().await: a message extends
\* all_matches; None, which recv gives once the queue is empty and every
\* Sender is dropped, ends the loop, and execute joins the producer and
\* returns
RxRecv ==
    /\ exec.pc = "collect"
    /\ IF exec.queue # <<>>
       THEN exec' = [exec EXCEPT !.all_matches = @ \o Head(exec.queue),
                                 !.queue = Tail(@)]
       ELSE /\ Senders = 0
            /\ exec.producer = "finished"
            /\ exec' = [exec EXCEPT !.pc = "returned",
                                    !.rx = FALSE,
                                    !.result = Ok(exec.all_matches)]
    /\ UNCHANGED <<base_vars, read, classifier, filter, cache, pool, mm>>

NextExec ==
    \/ ProducerFile
    \/ ProducerReturns
    \/ RxRecv

SpecExec ==
    /\ InitExec
    /\ [][NextExec]_vars
    /\ WF_vars(ProducerFile)
    /\ WF_vars(ProducerReturns)
    /\ WF_vars(RxRecv)

\* C28: execute always returns: once the producer has processed every file
\* the receive loop sees the channel closed and ends.
C28_ExecuteReturns ==
    (exec.pc = "collect" /\ exec.pending = {}) ~> (exec.pc = "returned")

(* ---------- memory.rs: AdaptiveMemoryManager's usage counters --------- *)

MaxMemCalls == 2

\* u64::MAX, scaled to three bits
MaxUsage == 7

MemThreads == 1..2

MemAmounts == {1, 2, 6}

\* u64::saturating_add
saturating_add(a, b) == IF a + b > MaxUsage THEN MaxUsage ELSE a + b

MemThreadIdle == [pc |-> "idle", new_val |-> 0, prev_peak |-> 0, calls |-> 0]

InitMem ==
    /\ BaseIdle
    /\ mm = [pc |-> "run",
             current_memory_usage |-> 0,
             peak_memory_usage |-> 0,
             thread |-> [t \in MemThreads |-> MemThreadIdle],
             requested |-> 0,
             was_reset |-> FALSE]
    /\ read = Idle
    /\ classifier = Idle
    /\ filter = Idle
    /\ cache = Idle
    /\ pool = Idle
    /\ exec = Idle

\* update_memory_usage(bytes): load the counter, compute new_val
UpdateLoad(t) ==
    /\ mm.pc = "run"
    /\ mm.thread[t].pc = "idle"
    /\ mm.thread[t].calls < MaxMemCalls
    /\ \E bytes \in MemAmounts :
          mm' = [mm EXCEPT
                    !.thread[t].pc = "store",
                    !.thread[t].new_val = saturating_add(mm.current_memory_usage, bytes),
                    !.thread[t].calls = @ + 1,
                    !.requested = saturating_add(@, bytes)]
    /\ UNCHANGED <<base_vars, read, classifier, filter, cache, pool, exec>>

\* self.current_memory_usage.store(new_val)
UpdateStore(t) ==
    /\ mm.pc = "run"
    /\ mm.thread[t].pc = "store"
    /\ mm' = [mm EXCEPT !.current_memory_usage = mm.thread[t].new_val,
                        !.thread[t].pc = "peak"]
    /\ UNCHANGED <<base_vars, read, classifier, filter, cache, pool, exec>>

\* let mut prev_peak = self.peak_memory_usage.load(); while new_val > prev_peak
PeakLoad(t) ==
    /\ mm.pc = "run"
    /\ mm.thread[t].pc = "peak"
    /\ mm' = [mm EXCEPT
                 !.thread[t].prev_peak = mm.peak_memory_usage,
                 !.thread[t].pc =
                     IF mm.thread[t].new_val > mm.peak_memory_usage THEN "cas" ELSE "idle"]
    /\ UNCHANGED <<base_vars, read, classifier, filter, cache, pool, exec>>

\* peak_memory_usage.compare_exchange(prev_peak, new_val): Ok ends the loop,
\* Err(actual) tries again while new_val > actual
PeakCompareExchange(t) ==
    /\ mm.pc = "run"
    /\ mm.thread[t].pc = "cas"
    /\ IF mm.peak_memory_usage = mm.thread[t].prev_peak
       THEN mm' = [mm EXCEPT !.peak_memory_usage = mm.thread[t].new_val,
                             !.thread[t].pc = "idle"]
       ELSE mm' = [mm EXCEPT
                      !.thread[t].prev_peak = mm.peak_memory_usage,
                      !.thread[t].pc =
                          IF mm.thread[t].new_val > mm.peak_memory_usage
                          THEN "cas" ELSE "idle"]
    /\ UNCHANGED <<base_vars, read, classifier, filter, cache, pool, exec>>

\* reset_memory_usage(): self.current_memory_usage.store(0)
ResetCurrent(t) ==
    /\ mm.pc = "run"
    /\ mm.thread[t].pc = "idle"
    /\ mm.thread[t].calls < MaxMemCalls
    /\ mm' = [mm EXCEPT !.current_memory_usage = 0,
                        !.thread[t].pc = "reset",
                        !.thread[t].calls = @ + 1,
                        !.was_reset = TRUE]
    /\ UNCHANGED <<base_vars, read, classifier, filter, cache, pool, exec>>

\* reset_memory_usage(): self.peak_memory_usage.store(0)
ResetPeak(t) ==
    /\ mm.pc = "run"
    /\ mm.thread[t].pc = "reset"
    /\ mm' = [mm EXCEPT !.peak_memory_usage = 0, !.thread[t].pc = "idle"]
    /\ UNCHANGED <<base_vars, read, classifier, filter, cache, pool, exec>>

NextMem ==
    \E t \in MemThreads :
        \/ UpdateLoad(t)
        \/ UpdateStore(t)
        \/ PeakLoad(t)
        \/ PeakCompareExchange(t)
        \/ ResetCurrent(t)
        \/ ResetPeak(t)

SpecMem == InitMem /\ [][NextMem]_vars

\* C30: no update is lost: when every call has returned and there was no
\* reset, the current usage is the saturating sum of the amounts of all the
\* calls, and the peak usage is at least the current usage.
C30_NoLostUpdate ==
    (/\ mm.pc = "run"
     /\ ~mm.was_reset
     /\ \A t \in MemThreads : mm.thread[t].pc = "idle") =>
        /\ mm.current_memory_usage = mm.requested
        /\ mm.peak_memory_usage >= mm.current_memory_usage

====
